---- MODULE Spec2Model ----
(***************************************************************************)
(* Model of the ggml container loader (ggml-loader/src/lib.rs): the        *)
(* traversal of one byte stream by load_model_from_reader and load_weights *)
(* and the handler hooks it invokes.  The stream is a sequence of bytes;   *)
(* integers are decoded little-endian as the reader helpers do.            *)
(* The eager loader of ggml-format/src/loader.rs and the quantizer of      *)
(* llama-rs/src/quantize.rs follow, each with its own specification.       *)
(***************************************************************************)
EXTENDS Integers, Sequences, FiniteSets, TLC

(***************************************************************************)
(* Bounds of the model.                                                    *)
(***************************************************************************)
\* largest vocabulary size a generated stream declares
MaxVocab == 3
\* largest number of tensor records in a generated stream
MaxTensors == 2
\* number of distinct cancellation payloads a handler may return
MaxPayload == 2
\* largest number of bytes cut from the end of a generated stream
MaxCut == 1
\* the longest buffer a handler hands out for a tensor
MaxBuffer == 4096

(***************************************************************************)
(* Program constants.                                                      *)
(***************************************************************************)
\* ggml::FILE_MAGIC_GGMF = 0x67676d66
FILE_MAGIC_GGMF == 1734831462
\* ggml::FILE_MAGIC_GGJT = 0x67676a74
FILE_MAGIC_GGJT == 1734830708
\* ggml::FILE_MAGIC_UNVERSIONED = 0x67676d6c
FILE_MAGIC_UNVERSIONED == 1734831468
\* ggml::FORMAT_VERSION
FORMAT_VERSION == 1
\* number of slots of TensorInfo::dims
ne_len == 2
\* modulus of the block-quantized sanity check
QuantModulus == 64
\* alignment of tensor data in the GGJT container
AlignBytes == 32
\* number of 32-bit fields of the llama hyperparameter record
HyperFields == 7

\* element-type tags as stored in a tensor header (index into FTYPE_STR)
TagF32 == 0
TagF16 == 1
TagQ4_0 == 2
TagQ4_1 == 3

(***************************************************************************)
(* Little-endian primitives (util::read_u32, read_i32, read_bytes_with_len)*)
(***************************************************************************)
Pow24 == 256 * 256 * 256

\* the 4 bytes of a 32-bit value, two's complement for negative values
LE32(n) ==
  LET m == IF n < 0 THEN (n + 127 * Pow24) + Pow24 ELSE n
      top == (m \div Pow24) + (IF n < 0 THEN 128 ELSE 0)
  IN << m % 256, (m \div 256) % 256, (m \div 65536) % 256, top >>

\* the largest integer the lengths and positions are computed in, 2^31 - 1;
\* a length or a position that large is past the end of every stream
Top == 127 * Pow24 + (Pow24 - 1)

\* a * b and a + b on usize values (a, b >= 0); a result above Top, which
\* a usize holds, is kept as Top
usize_mul(a, b) ==
  IF a = 0 \/ b = 0 THEN 0 ELSE IF a > Top \div b THEN Top ELSE a * b

usize_add(a, b) == IF a > Top - b THEN Top ELSE a + b

\* the unsigned value of the 4 bytes at 0-based offset p of s; a value of
\* 2^31 or more is read as Top: it is neither a magic nor a version of
\* the format
U32At(s, p) ==
  IF s[p + 4] >= 128
    THEN Top
    ELSE s[p + 1] + 256 * s[p + 2] + 65536 * s[p + 3] + Pow24 * s[p + 4]

\* the signed value of the 4 bytes at 0-based offset p of s
I32At(s, p) ==
  LET b3 == s[p + 4]
      hi == IF b3 >= 128 THEN b3 - 256 ELSE b3
  IN s[p + 1] + 256 * s[p + 2] + 65536 * s[p + 3] + Pow24 * hi

\* read_exact of n bytes at offset p succeeds iff the bytes are there; a
\* read of no byte succeeds wherever the position is
CanRead(s, p, n) == n = 0 \/ (p <= Len(s) /\ n <= Len(s) - p)

\* the n bytes at 0-based offset p of s
BytesAt(s, p, n) == SubSeq(s, p + 1, p + n)

\* util::has_data_left: fill_buf() is not empty
has_data_left(s, p) == p < Len(s)

(***************************************************************************)
(* Element types (ggml::Type) and their type-level properties.             *)
(***************************************************************************)
ElementTypes == {"F32", "F16", "Q4_0", "Q4_1"}

\* util::decode_element_type_res: the element type of a raw tag, or
\* "unsupported" for a tag no element type carries
decode_element_type(tag) ==
  CASE tag = TagF32 -> "F32"
    [] tag = TagF16 -> "F16"
    [] tag = TagQ4_0 -> "Q4_0"
    [] tag = TagQ4_1 -> "Q4_1"
    [] OTHER -> "unsupported"

\* ggml::type_size: bytes of one element (non-quantized types) or of one
\* block (block-quantized types)
type_size(t) ==
  CASE t = "F32" -> 4
    [] t = "F16" -> 2
    [] t = "Q4_0" -> 20
    [] t = "Q4_1" -> 24

\* ggml::blck_size: elements per block, 1 for non-quantized types
blck_size(t) == IF t \in {"Q4_0", "Q4_1"} THEN 32 ELSE 1

IsQuantized(t) == t \in {"Q4_0", "Q4_1"}

\* the byte length of a tensor's data region as the format defines it:
\* byte_size * element_count / block_size
DataLength(t, n_elements) ==
  usize_mul(type_size(t), n_elements) \div blck_size(t)

(***************************************************************************)
(* The streams the traversal is run on.  A stream is generated from a      *)
(* description (magic, version, vocabulary size, tensor records, cut) by   *)
(* the on-disk layout, so that well-formed and malformed files both occur. *)
(***************************************************************************)
Zeros(n) == [j \in 1..n |-> 0]

\* the j-th body byte of a tensor: never 255, the fill of a fresh buffer
BodyBytes(n) == [j \in 1..n |-> ((j * 7) % 101) + 1]

\* the tensor records a generated stream is cut out of, in this order
\* (name: the name bytes actually present; body: the body bytes present)
TensorCatalogue ==
  << [n_dims |-> 1, name_len |-> 1, tag |-> TagF32, dims |-> <<2>>, body |-> 8],
     [n_dims |-> 2, name_len |-> 2, tag |-> TagF16, dims |-> <<2, 3>>, body |-> 12],
     [n_dims |-> 0, name_len |-> 3, tag |-> TagF32, dims |-> <<>>, body |-> 4],
     [n_dims |-> 1, name_len |-> 5, tag |-> TagQ4_0, dims |-> <<64>>, body |-> 40],
     [n_dims |-> 2, name_len |-> 2, tag |-> TagQ4_1, dims |-> <<64, 1>>, body |-> 48],
     [n_dims |-> 1, name_len |-> 1, tag |-> TagF16, dims |-> <<3>>, body |-> 6],
     [n_dims |-> 1, name_len |-> 4, tag |-> TagQ4_0, dims |-> <<64>>, body |-> 1280],
     [n_dims |-> 1, name_len |-> 2, tag |-> TagQ4_0, dims |-> <<32>>, body |-> 20],
     [n_dims |-> 0, name_len |-> 1, tag |-> TagQ4_1, dims |-> <<>>, body |-> 0],
     [n_dims |-> 2, name_len |-> 1, tag |-> TagQ4_1, dims |-> <<65, 64>>, body |-> 8],
     [n_dims |-> 3, name_len |-> 1, tag |-> TagF32, dims |-> <<1, 1, 1>>, body |-> 4],
     [n_dims |-> 1, name_len |-> 1, tag |-> 9, dims |-> <<2>>, body |-> 8],
     [n_dims |-> -1, name_len |-> 1, tag |-> TagF32, dims |-> <<>>, body |-> 4],
     [n_dims |-> 1, name_len |-> -2, tag |-> TagF16, dims |-> <<2>>, body |-> 4],
     [n_dims |-> 1, name_len |-> 1, tag |-> TagF32, dims |-> <<-3>>, body |-> 4],
     [n_dims |-> 1, name_len |-> 2, tag |-> TagF32, dims |-> <<0>>, body |-> 0],
     [n_dims |-> 2, name_len |-> 1, tag |-> TagQ4_0, dims |-> <<33, -1>>, body |-> 0],
     [n_dims |-> 3, name_len |-> 2, tag |-> 9, dims |-> <<2, 2, 2>>, body |-> 4],
     [n_dims |-> 4, name_len |-> -1, tag |-> TagF16, dims |-> <<2>>, body |-> 0] >>

\* the tensor lists: runs of at most MaxTensors consecutive catalogue records
TensorLists ==
  { SubSeq(TensorCatalogue, w[1], w[1] + w[2] - 1) :
      w \in { x \in (1..Len(TensorCatalogue)) \X (0..MaxTensors) :
                x[1] + x[2] - 1 <= Len(TensorCatalogue) } }

\* the bytes of dims, 4 per dimension
RECURSIVE DimBytes(_, _)
DimBytes(dims, k) ==
  IF k > Len(dims) THEN << >> ELSE LE32(dims[k]) \o DimBytes(dims, k + 1)

NameBytes(n) == [j \in 1..n |-> 96 + j]

\* padding up to the next multiple of AlignBytes, as the GGJT writer emits it
PadLength(p) == (AlignBytes - (p % AlignBytes)) % AlignBytes

\* one tensor record starting at stream offset start
TensorRecord(t, start, padded) ==
  LET hdr == LE32(t.n_dims) \o LE32(t.name_len) \o LE32(t.tag)
               \o DimBytes(t.dims, 1)
               \o NameBytes(IF t.name_len < 0 THEN 0 ELSE t.name_len)
      pad == IF padded THEN PadLength(start + Len(hdr)) ELSE 0
  IN hdr \o Zeros(pad) \o BodyBytes(t.body)

RECURSIVE TensorStream(_, _, _, _)
TensorStream(list, k, start, padded) ==
  IF k > Len(list) THEN << >>
  ELSE LET rec == TensorRecord(list[k], start, padded)
       IN rec \o TensorStream(list, k + 1, start + Len(rec), padded)

\* vocabulary entry k (0-based): token of k % 3 bytes, score bits 1000 + k
TokenBytes(k) == [j \in 1..(k % 3) |-> 65 + k]
ScoreBits(k) == 1000 + k

RECURSIVE VocabStream(_, _, _)
VocabStream(k, n, scored) ==
  IF k >= n THEN << >>
  ELSE LE32(k % 3) \o TokenBytes(k)
         \o (IF scored THEN LE32(ScoreBits(k)) ELSE << >>)
         \o VocabStream(k + 1, n, scored)

\* the llama hyperparameter record: n_vocab first, then six more fields
HyperStream(n) ==
  LE32(n) \o LE32(8) \o LE32(256) \o LE32(2) \o LE32(1) \o LE32(4) \o LE32(1)

Magics ==
  { FILE_MAGIC_GGMF, FILE_MAGIC_GGJT, FILE_MAGIC_UNVERSIONED,
    FILE_MAGIC_GGMF + 1, 0 }

Versions == { FORMAT_VERSION, FORMAT_VERSION + 1, 0 }

Versioned(magic) == magic \in { FILE_MAGIC_GGMF, FILE_MAGIC_GGJT }

\* the whole stream of a description, less its last cut bytes
BuildStream(magic, version, n, list, cut) ==
  LET head == LE32(magic)
                \o (IF Versioned(magic) THEN LE32(version) ELSE << >>)
                \o HyperStream(n)
                \o VocabStream(0, n, Versioned(magic))
      full == head \o TensorStream(list, 1, Len(head), magic = FILE_MAGIC_GGJT)
      keep == IF cut > Len(full) THEN 0 ELSE Len(full) - cut
  IN SubSeq(full, 1, keep)

\* cuts: none, or a multiple of 5 bytes off the end
Cuts == { 5 * c : c \in 0..MaxCut }

Descriptions ==
  { d \in [magic : Magics, version : Versions, n : 0..MaxVocab,
           list : TensorLists, cut : Cuts] :
      /\ (~Versioned(d.magic) => d.version = FORMAT_VERSION)
      /\ (d.magic \in { FILE_MAGIC_GGMF + 1, 0 } => d.n = 0 /\ d.list = << >>)
      /\ (d.version # FORMAT_VERSION => d.n = 0 /\ d.list = << >>) }

(***************************************************************************)
(* State of one traversal.                                                 *)
(***************************************************************************)
VARIABLES
  stream,          \* the bytes of the input stream
  pos,             \* the reader's stream position
  pc,              \* the position of load_model_from_reader / load_weights
  next_pc,         \* where the traversal goes on when retchk lets it
  container_type,  \* the ContainerType the magic selected, "none" before
  n_vocab,         \* hparams.n_vocab as the handler returned it
  i,               \* index of the vocabulary loop
  entry,           \* the vocabulary entry just read: token and score bits
  tensor_info,     \* the TensorInfo of the tensor header just read
  ret,             \* what the last hook returned (a ControlFlow)
  result,          \* the Result the top-level call returned, kind "none" before
  calls,           \* the hooks invoked so far, in order, with their arguments
  buf,             \* the buffer the tensor hook handed out, if any
  reads,           \* number of stream bytes the engine has read
  seeks,           \* number of seek calls the engine has made
  vocab_read,      \* number of vocabulary entries the engine has read
  tensors_read,    \* number of tensor headers the engine has read
  first,           \* the finished run of the cancellation-aware loader, kept
                   \* while the eager loader runs on the same stream
  itype,           \* quantizer: the requested output type
  qk,              \* quantizer: the block length handed to the kernel
  fout,            \* quantizer: the bytes written to the output so far
  total_size_org,  \* quantizer: the running total of line 318
  total_size_new,  \* quantizer: the running total of lines 299 and 315
  tensor,          \* quantizer: the tensor record of this loop iteration
  copied           \* quantizer: the tensor records written so far, in order

vars ==
  << stream, pos, pc, next_pc, container_type, n_vocab, i, entry,
     tensor_info, ret, result, calls, buf, reads, seeks, vocab_read,
     tensors_read, first, itype, qk, fout, total_size_org, total_size_new,
     tensor, copied >>

\* the state of the quantizer, which the loaders leave alone
quantizer ==
  << itype, qk, fout, total_size_org, total_size_new, tensor, copied >>

NoResult == [kind |-> "none", value |-> 0, msg |-> ""]
Err(kind, value, msg) == [kind |-> kind, value |-> value, msg |-> msg]
NoRet == [flow |-> "none", payload |-> 0, value |-> 0]
NoEntry == [token |-> << >>, score |-> 0]
NoInfo ==
  [name |-> << >>, n_dims |-> 0, dims |-> <<1, 1>>, n_elements |-> 1,
   ftype |-> "F32", start_offset |-> 0]
NoRun == [calls |-> << >>, result |-> NoResult, pos |-> 0]
NoTensor ==
  [start |-> 0, n_dims |-> 0, length |-> 0, ftype |-> 0, ne |-> <<1, 1>>,
   nelements |-> 1, name |-> << >>, quantize |-> FALSE, data |-> << >>]

\* the quantizer before it is called
QuantizerIdle ==
  /\ itype = 0
  /\ qk = 0
  /\ fout = << >>
  /\ total_size_org = 0
  /\ total_size_new = 0
  /\ tensor = NoTensor
  /\ copied = << >>

Init ==
  /\ \E d \in Descriptions :
       stream = BuildStream(d.magic, d.version, d.n, d.list, d.cut)
  /\ pos = 0
  /\ pc = "verify_magic"
  /\ next_pc = "none"
  /\ container_type = "none"
  /\ n_vocab = 0
  /\ i = 0
  /\ entry = NoEntry
  /\ tensor_info = NoInfo
  /\ ret = NoRet
  /\ result = NoResult
  /\ calls = << >>
  /\ buf = << >>
  /\ reads = 0
  /\ seeks = 0
  /\ vocab_read = 0
  /\ tensors_read = 0
  /\ first = NoRun
  /\ QuantizerIdle

(***************************************************************************)
(* Pieces shared by the steps.                                             *)
(***************************************************************************)
\* a match with the arms of GGMF and GGJT exchanged
ContainerOfMagicSwapped(magic) ==
  CASE magic = FILE_MAGIC_GGMF -> "GGJT"
    [] magic = FILE_MAGIC_GGJT -> "GGMF"
    [] magic = FILE_MAGIC_UNVERSIONED -> "GGML"
    [] OTHER -> "none"

\* the match of load_model_from_reader on the magic: a ContainerType, or
\* "none" for the arm that returns InvalidMagic
ContainerOfMagic(magic) ==
  CASE magic = FILE_MAGIC_GGMF -> "GGMF"
    [] magic = FILE_MAGIC_GGJT -> "GGJT"
    [] magic = FILE_MAGIC_UNVERSIONED -> "GGML"
    [] OTHER -> "none"

\* the match on the container type that decides whether a version is read
HasFormatVersion(ct) == ct \in {"GGMF", "GGJT"}

\* a version match that lets every version through
VersionNeverChecked(version) == TRUE

\* the match on the version field: TRUE for the arm that goes on
VersionAccepted(version) == version = FORMAT_VERSION

\* a score match that reads a score in the aligned container only
ScoreOnlyAligned(ct) == ct = "GGJT"

\* the match on the container type that decides whether a score is read
HasScore(ct) == ct \in {"GGMF", "GGJT"}

\* a last match that takes GGMF for aligned too
AlignOfVersioned(ct) == ct \in {"GGMF", "GGJT"}

\* the last match of load_model_from_reader: the align argument of load_weights
AlignOf(ct) == ct = "GGJT"

\* a retchk that drops the Break and lets the traversal go on
retchk_ignores(r) == FALSE

\* util::retchk followed by `?`: TRUE when the hook's ControlFlow is a Break,
\* which returns Err(UserInterrupted(payload)) from the traversal
retchk_breaks(r) == r.flow = "Break"

\* an alignment that rounds down: offset_curr & !31
OffsetRoundedDown(offset_curr, align) ==
  IF align THEN (offset_curr \div AlignBytes) * AlignBytes ELSE offset_curr

\* (offset_curr + 31) & !31 when align, else offset_curr
OffsetAligned(offset_curr, align) ==
  IF align
    THEN ((offset_curr + (AlignBytes - 1)) \div AlignBytes) * AlignBytes
    ELSE offset_curr

\* type_size * n_elements: the byte count load_weights demands of a buffer
\* and skips when no buffer is given
WeightsSize(ftype, n_elements) == usize_mul(type_size(ftype), n_elements)

\* a sanity check that looks at the second dimension slot
SanityCheckSecondDim(ftype, dims) ==
  IsQuantized(ftype) => dims[2] % QuantModulus = 0

\* the sanity check on a block-quantized tensor: TRUE when it passes
SanityCheck(ftype, dims) ==
  IsQuantized(ftype) => dims[1] % QuantModulus = 0

\* where a failed read_exact may leave the stream: the std readers differ
AfterFailedRead(p) == { p, IF Len(stream) > p THEN Len(stream) ELSE p }

Finish(r) ==
  /\ pc' = "done"
  /\ result' = r

(***************************************************************************)
(* The tensor header, lines 173-219 of load_weights, as a function of the  *)
(* stream and the position p the loop iteration starts at.  The outcome    *)
(* is "ok" with the TensorInfo, or the error the first failing step        *)
(* returns; end is the stream position the step leaves.                    *)
(***************************************************************************)
HeaderErr(kind, value, msg, end) ==
  [kind |-> kind, value |-> value, msg |-> msg, end |-> end, info |-> NoInfo]

\* the loop over the dimensions: dims[k] and n_elements *= dim
RECURSIVE ReadDims(_, _, _, _, _, _)
ReadDims(s, p, k, n_dims, dims, n_elements) ==
  IF k = n_dims
    THEN [kind |-> "ok", end |-> p, dims |-> dims, n_elements |-> n_elements,
          value |-> 0]
  ELSE IF ~CanRead(s, p, 4)
    THEN [kind |-> "Io", end |-> p, dims |-> dims, n_elements |-> n_elements,
          value |-> 0]
  ELSE IF I32At(s, p) < 0
    THEN [kind |-> "FailedCast", end |-> p + 4, dims |-> dims,
          n_elements |-> n_elements, value |-> I32At(s, p)]
  ELSE ReadDims(s, p + 4, k + 1, n_dims,
                [dims EXCEPT ![k + 1] = I32At(s, p)],
                usize_mul(n_elements, I32At(s, p)))

\* a bound on the dimensions that lets three through
DimsFitThree(n_dims) == n_dims <= ne_len + 1

\* the check n_dims <= ne_len on the dimension count of a header
DimsFit(n_dims) == n_dims <= ne_len

ReadTensorHeader(s, p, align) ==
  IF ~CanRead(s, p, 4) THEN HeaderErr("Io", 0, "", p)
  ELSE IF I32At(s, p) < 0 THEN HeaderErr("FailedCast", I32At(s, p), "", p + 4)
  ELSE IF ~CanRead(s, p + 4, 4) THEN HeaderErr("Io", 0, "", p + 4)
  ELSE IF ~CanRead(s, p + 8, 4) THEN HeaderErr("Io", 0, "", p + 8)
  ELSE
    LET n_dims == I32At(s, p)
        name_len == I32At(s, p + 4)
        tag == I32At(s, p + 8)
        ftype == decode_element_type(tag)
    IN
    IF ftype = "unsupported"
      THEN HeaderErr("UnsupportedElementType", tag, "", p + 12)
    ELSE IF ~DimsFit(n_dims)
      THEN HeaderErr("InvariantBroken", n_dims, "n_dims <= ne_len", p + 12)
    ELSE
      LET d == ReadDims(s, p + 12, 0, n_dims, <<1, 1>>, 1) IN
      IF d.kind # "ok" THEN HeaderErr(d.kind, d.value, "", d.end)
      ELSE IF name_len < 0 THEN HeaderErr("FailedCast", name_len, "", d.end)
      ELSE IF ~CanRead(s, d.end, name_len) THEN HeaderErr("Io", 0, "", d.end)
      ELSE IF ~SanityCheck(ftype, d.dims)
        THEN HeaderErr("InvariantBroken", d.dims[1], "dims[0] % 64 == 0",
                       d.end + name_len)
      ELSE
        [kind |-> "ok", value |-> 0, msg |-> "", end |-> d.end + name_len,
         info |-> [name |-> BytesAt(s, d.end, name_len),
                   n_dims |-> n_dims,
                   dims |-> d.dims,
                   n_elements |-> d.n_elements,
                   ftype |-> ftype,
                   start_offset |-> OffsetAligned(d.end + name_len, align)]]

(***************************************************************************)
(* What a handler may answer.                                              *)
(***************************************************************************)
Continue(v) == [flow |-> "Continue", payload |-> 0, value |-> v]
Break(q) == [flow |-> "Break", payload |-> q, value |-> 0]
Payloads == 1..MaxPayload
Breaks == { Break(q) : q \in Payloads }

\* the buffer lengths a handler may hand out for a tensor: the data length
\* of the format, the product of type size and element count, one more
HandlerBufferLengths(info) ==
  { n \in { DataLength(info.ftype, info.n_elements),
            usize_mul(type_size(info.ftype), info.n_elements),
            usize_add(DataLength(info.ftype, info.n_elements), 1) } :
      n <= MaxBuffer }

\* a fresh buffer of the handler: n bytes of 255
FreshBuffer(n) == [j \in 1..n |-> 255]

Call(hook, arg) == [hook |-> hook, arg |-> arg, at |-> pos]

(***************************************************************************)
(* load_model_from_reader, one action per stretch of code between hooks.   *)
(***************************************************************************)
\* a magic step that consumes the version field too before the handler is
\* told the container type
VerifyMagicAndVersion ==
  /\ pc = "verify_magic"
  /\ IF ~CanRead(stream, pos, 4)
       THEN /\ Finish(Err("Io", 0, ""))
            /\ pos' \in AfterFailedRead(pos)
            /\ UNCHANGED << container_type, reads >>
       ELSE LET magic == U32At(stream, pos)
                step == IF HasFormatVersion(ContainerOfMagic(magic))
                             /\ CanRead(stream, pos, 8)
                          THEN 8 ELSE 4
            IN
            /\ pos' = pos + step
            /\ reads' = reads + step
            /\ IF ContainerOfMagic(magic) = "none"
                 THEN /\ Finish(Err("InvalidMagic", magic, ""))
                      /\ UNCHANGED container_type
                 ELSE /\ container_type' = ContainerOfMagic(magic)
                      /\ pc' = "got_container_type"
                      /\ UNCHANGED result
  /\ UNCHANGED << first, quantizer >>
  /\ UNCHANGED << stream, next_pc, n_vocab, i, entry, tensor_info, ret, calls,
                  buf, seeks, vocab_read, tensors_read >>

\* lines 108-114: read the magic and select the container type
VerifyMagic ==
  /\ pc = "verify_magic"
  /\ IF ~CanRead(stream, pos, 4)
       THEN /\ Finish(Err("Io", 0, ""))
            /\ pos' \in AfterFailedRead(pos)
            /\ UNCHANGED << container_type, reads >>
       ELSE LET magic == U32At(stream, pos) IN
            /\ pos' = pos + 4
            /\ reads' = reads + 4
            /\ IF ContainerOfMagic(magic) = "none"
                 THEN /\ Finish(Err("InvalidMagic", magic, ""))
                      /\ UNCHANGED container_type
                 ELSE /\ container_type' = ContainerOfMagic(magic)
                      /\ pc' = "got_container_type"
                      /\ UNCHANGED result
  /\ UNCHANGED << first, quantizer >>
  /\ UNCHANGED << stream, next_pc, n_vocab, i, entry, tensor_info, ret, calls,
                  buf, seeks, vocab_read, tensors_read >>

\* line 115: handler.got_container_type(container_type)
GotContainerType ==
  /\ pc = "got_container_type"
  /\ calls' = Append(calls, Call("got_container_type", container_type))
  /\ ret' \in {Continue(0)} \cup Breaks
  /\ pc' = "retchk"
  /\ next_pc' = "format_version"
  /\ UNCHANGED << first, quantizer >>
  /\ UNCHANGED << stream, pos, container_type, n_vocab, i, entry, tensor_info,
                  result, buf, reads, seeks, vocab_read, tensors_read >>

\* retchk(...)? after every hook: a Break ends the traversal with
\* UserInterrupted carrying the payload, a Continue goes on
Retchk ==
  /\ pc = "retchk"
  /\ IF retchk_breaks(ret)
       THEN Finish(Err("UserInterrupted", ret.payload, ""))
       ELSE /\ pc' = next_pc
            /\ UNCHANGED result
  /\ UNCHANGED << first, quantizer >>
  /\ UNCHANGED << stream, pos, next_pc, container_type, n_vocab, i, entry,
                  tensor_info, ret, calls, buf, reads, seeks, vocab_read,
                  tensors_read >>

\* lines 117-126: read and check the format version of GGMF and GGJT
LoadFormatVersion ==
  /\ pc = "format_version"
  /\ IF ~HasFormatVersion(container_type)
       THEN /\ pc' = "load_hyper_parameters"
            /\ UNCHANGED << pos, reads, result >>
     ELSE IF ~CanRead(stream, pos, 4)
       THEN /\ Finish(Err("Io", 0, ""))
            /\ pos' \in AfterFailedRead(pos)
            /\ UNCHANGED reads
     ELSE /\ pos' = pos + 4
          /\ reads' = reads + 4
          /\ IF VersionAccepted(U32At(stream, pos))
               THEN /\ pc' = "load_hyper_parameters"
                    /\ UNCHANGED result
               ELSE Finish(Err("InvalidFormatVersion", U32At(stream, pos), ""))
  /\ UNCHANGED << first, quantizer >>
  /\ UNCHANGED << stream, next_pc, container_type, n_vocab, i, entry,
                  tensor_info, ret, calls, buf, seeks, vocab_read,
                  tensors_read >>

\* line 129: handler.load_hyper_parameters(reader).  The handler reads its
\* record from the stream: HyperFields 32-bit fields, n_vocab the first.
\* A handler that cannot read its record breaks; one that can may do either.
LoadHyperParameters ==
  /\ pc = "load_hyper_parameters"
  /\ calls' = Append(calls, Call("load_hyper_parameters", 0))
  /\ IF CanRead(stream, pos, 4 * HyperFields)
       THEN /\ pos' = pos + 4 * HyperFields
            /\ ret' \in {Continue(U32At(stream, pos))} \cup Breaks
       ELSE /\ pos' \in AfterFailedRead(pos)
            /\ ret' \in Breaks
  /\ pc' = "retchk"
  /\ next_pc' = "vocab_first"
  /\ UNCHANGED << first, quantizer >>
  /\ UNCHANGED << stream, container_type, n_vocab, i, entry, tensor_info,
                  result, buf, reads, seeks, vocab_read, tensors_read >>

\* the state of the loop `for i in 0..n_vocab` when control is at its head:
\* entered from line 130 (n_vocab is set, i starts at 0) or from the end of
\* the previous iteration (i advances)
LoopN == IF pc = "vocab_first" THEN ret.value ELSE n_vocab
\* the loop index of `for i in 0..=n_vocab`, one iteration too many
LoopIInclusive == (IF pc = "vocab_first" THEN 0 ELSE i + 1) - 1

\* the loop index of `for i in 1..n_vocab`, counting from one
LoopIFromOne == IF pc = "vocab_first" THEN 1 ELSE i + 1

LoopI == IF pc = "vocab_first" THEN 0 ELSE i + 1

\* lines 130-142: one vocabulary entry: length, token and, when the
\* container has scores, the score
LoadVocabToken ==
  /\ pc \in {"vocab_first", "vocab_next"}
  /\ LoopI < LoopN
  /\ n_vocab' = LoopN
  /\ i' = LoopI
  /\ IF ~CanRead(stream, pos, 4)
       THEN /\ Finish(Err("Io", 0, ""))
            /\ pos' \in AfterFailedRead(pos)
            /\ UNCHANGED << reads, entry, vocab_read >>
     ELSE LET len == U32At(stream, pos)
              tail == IF HasScore(container_type) THEN 4 ELSE 0
          IN
          IF ~CanRead(stream, pos + 4, len)
            THEN /\ Finish(Err("Io", 0, ""))
                 /\ pos' \in AfterFailedRead(pos + 4)
                 /\ reads' = reads + 4
                 /\ UNCHANGED << entry, vocab_read >>
          ELSE IF ~CanRead(stream, pos + 4 + len, tail)
            THEN /\ Finish(Err("Io", 0, ""))
                 /\ pos' \in AfterFailedRead(pos + 4 + len)
                 /\ reads' = reads + 4 + len
                 /\ UNCHANGED << entry, vocab_read >>
            ELSE /\ pos' = pos + 4 + len + tail
                 /\ reads' = reads + 4 + len + tail
                 /\ entry' = [token |-> BytesAt(stream, pos + 4, len),
                              score |-> IF HasScore(container_type)
                                          THEN U32At(stream, pos + 4 + len)
                                          ELSE 0]
                 /\ vocab_read' = vocab_read + 1
                 /\ pc' = "got_vocab_token"
                 /\ UNCHANGED result
  /\ UNCHANGED << first, quantizer >>
  /\ UNCHANGED << stream, next_pc, container_type, tensor_info, ret, calls,
                  buf, seeks, tensors_read >>

\* line 143: handler.got_vocab_token(i, token, token_score)
GotVocabToken ==
  /\ pc = "got_vocab_token"
  /\ calls' = Append(calls, Call("got_vocab_token", << i, entry.token, entry.score >>))
  /\ ret' \in {Continue(0)} \cup Breaks
  /\ pc' = "retchk"
  /\ next_pc' = "vocab_next"
  /\ UNCHANGED << first, quantizer >>
  /\ UNCHANGED << stream, pos, container_type, n_vocab, i, entry, tensor_info,
                  result, buf, reads, seeks, vocab_read, tensors_read >>

\* lines 146-153 once the vocabulary loop is over: the multipart hook comes
\* first for GGMF and GGML, load_weights directly for GGJT
LoadTensorData ==
  /\ pc \in {"vocab_first", "vocab_next"}
  /\ ~(LoopI < LoopN)
  /\ n_vocab' = LoopN
  /\ pc' = IF AlignOf(container_type) THEN "load_weights" ELSE "load_multipart"
  /\ UNCHANGED << first, quantizer >>
  /\ UNCHANGED << stream, pos, next_pc, container_type, i, entry, tensor_info,
                  ret, result, calls, buf, reads, seeks, vocab_read,
                  tensors_read >>

\* line 149: handler.load_multipart(reader); the handler leaves the reader alone
LoadMultipart ==
  /\ pc = "load_multipart"
  /\ calls' = Append(calls, Call("load_multipart", 0))
  /\ ret' \in {Continue(0)} \cup Breaks
  /\ pc' = "retchk"
  /\ next_pc' = "load_weights"
  /\ UNCHANGED << first, quantizer >>
  /\ UNCHANGED << stream, pos, container_type, n_vocab, i, entry, tensor_info,
                  result, buf, reads, seeks, vocab_read, tensors_read >>

(***************************************************************************)
(* load_weights.                                                           *)
(***************************************************************************)
\* line 172 with no data left, then line 241: the traversal succeeds
LoadWeightsDone ==
  /\ pc = "load_weights"
  /\ ~has_data_left(stream, pos)
  /\ Finish(Err("Ok", 0, ""))
  /\ UNCHANGED << first, quantizer >>
  /\ UNCHANGED << stream, pos, next_pc, container_type, n_vocab, i, entry,
                  tensor_info, ret, calls, buf, reads, seeks, vocab_read,
                  tensors_read >>

\* lines 172-219: data is left, read one tensor header
LoadTensorHeader ==
  /\ pc = "load_weights"
  /\ has_data_left(stream, pos)
  /\ LET h == ReadTensorHeader(stream, pos, AlignOf(container_type)) IN
     /\ reads' = reads + (h.end - pos)
     /\ IF h.kind = "ok"
          THEN /\ pos' = h.end
               /\ tensor_info' = h.info
               /\ tensors_read' = tensors_read + 1
               /\ pc' = "tensor_buffer"
               /\ UNCHANGED result
          ELSE /\ pos' \in (IF h.kind = "Io" THEN AfterFailedRead(h.end) ELSE {h.end})
               /\ Finish(Err(h.kind, h.value, h.msg))
               /\ UNCHANGED << tensor_info, tensors_read >>
  /\ UNCHANGED << first, quantizer >>
  /\ UNCHANGED << stream, next_pc, container_type, n_vocab, i, entry, ret,
                  calls, buf, seeks, vocab_read >>

\* line 222: handler.tensor_buffer(tensor_info): no buffer (value -1), a
\* fresh buffer of some length, or a Break
TensorBuffer ==
  /\ pc = "tensor_buffer"
  /\ calls' = Append(calls, Call("tensor_buffer", tensor_info))
  /\ \/ /\ ret' \in {Continue(-1)} \cup Breaks
        /\ buf' = << >>
     \/ \E n \in HandlerBufferLengths(tensor_info) :
          /\ ret' = Continue(n)
          /\ buf' = FreshBuffer(n)
  /\ pc' = "retchk"
  /\ next_pc' = "tensor_weights"
  /\ UNCHANGED << first, quantizer >>
  /\ UNCHANGED << stream, pos, container_type, n_vocab, i, entry, tensor_info,
                  result, reads, seeks, vocab_read, tensors_read >>

\* lines 222-238 after the hook went on: copy the tensor into the buffer,
\* or skip it when there is none
LoadTensorWeights ==
  /\ pc = "tensor_weights"
  /\ LET align == AlignOf(container_type)
         size == WeightsSize(tensor_info.ftype, tensor_info.n_elements)
         from == IF align THEN tensor_info.start_offset ELSE pos
     IN
     IF ret.value >= 0
       THEN /\ seeks' = IF align THEN seeks + 1 ELSE seeks
            /\ IF ~(Len(buf) = size)
                 THEN /\ Finish(Err("InvariantBroken", Len(buf),
                                    "buf_len == type_size * n_elements"))
                      /\ pos' = from
                      /\ UNCHANGED << buf, reads >>
               ELSE IF CanRead(stream, from, size)
                 THEN /\ buf' = BytesAt(stream, from, size)
                      /\ pos' = usize_add(from, size)
                      /\ reads' = reads + size
                      /\ pc' = "load_weights"
                      /\ UNCHANGED result
               ELSE /\ Finish(Err("Io", 0, ""))
                    /\ \E np \in AfterFailedRead(from) :
                         /\ pos' = np
                         /\ buf' \in { buf,
                                       [j \in 1..Len(buf) |->
                                          IF from + j <= Len(stream)
                                            THEN stream[from + j] ELSE buf[j]] }
                    /\ UNCHANGED reads
       ELSE /\ pos' = usize_add(tensor_info.start_offset, size)
            /\ seeks' = seeks + 1
            /\ pc' = "load_weights"
            /\ UNCHANGED << buf, reads, result >>
  /\ UNCHANGED << first, quantizer >>
  /\ UNCHANGED << stream, next_pc, container_type, n_vocab, i, entry,
                  tensor_info, ret, calls, vocab_read, tensors_read >>

Next ==
  \/ VerifyMagic
  \/ GotContainerType
  \/ Retchk
  \/ LoadFormatVersion
  \/ LoadHyperParameters
  \/ LoadVocabToken
  \/ GotVocabToken
  \/ LoadTensorData
  \/ LoadMultipart
  \/ LoadWeightsDone
  \/ LoadTensorHeader
  \/ TensorBuffer
  \/ LoadTensorWeights

Spec == Init /\ [][Next]_vars

(***************************************************************************)
(* The eager loader, ggml-format/src/loader.rs.  Its hooks return          *)
(* Result<_, E>, an Err ends the traversal with ImplementationError; it    *)
(* has no multipart hook and hands out no buffer: after the tensor hook it *)
(* seeks to the end of the tensor, calc_size bytes after its start.  It    *)
(* runs on the stream, and in the variables, of the first loader.          *)
(***************************************************************************)
HandlerOk(v) == [flow |-> "Ok", payload |-> 0, value |-> v]
HandlerErr(e) == [flow |-> "Err", payload |-> e, value |-> 0]
HandlerErrs == { HandlerErr(e) : e \in Payloads }

\* TensorInfo::calc_size, lines 47-53
calc_size(info) ==
  LET d1 == IF info.n_dims >= 1 THEN info.dims[1] ELSE 1
      d2 == IF info.n_dims >= 2 THEN info.dims[2] ELSE 1
  IN usize_mul(usize_mul(type_size(info.ftype), d1), d2) \div blck_size(info.ftype)

\* the handler of the first loader never cancels and never hands out a buffer
PlainAnswer ==
  /\ ret.flow # "Break"
  /\ (next_pc = "tensor_weights" => ret.value < 0)

\* the first loader has returned: the eager loader is called on the same
\* stream from its start, with a handler of its own
RunEager ==
  /\ pc = "done"
  /\ first = NoRun
  /\ first' = [calls |-> calls, result |-> result, pos |-> pos]
  /\ pc' = "e_verify_magic"
  /\ pos' = 0
  /\ next_pc' = "none"
  /\ container_type' = "none"
  /\ n_vocab' = 0
  /\ i' = 0
  /\ entry' = NoEntry
  /\ tensor_info' = NoInfo
  /\ ret' = NoRet
  /\ result' = NoResult
  /\ calls' = << >>
  /\ reads' = 0
  /\ seeks' = 0
  /\ vocab_read' = 0
  /\ tensors_read' = 0
  /\ UNCHANGED << stream, buf, quantizer >>

\* lines 86-91: read the magic and select the container type
EagerVerifyMagic ==
  /\ pc = "e_verify_magic"
  /\ IF ~CanRead(stream, pos, 4)
       THEN /\ Finish(Err("Io", 0, ""))
            /\ pos' \in AfterFailedRead(pos)
            /\ UNCHANGED << container_type, reads >>
       ELSE LET magic == U32At(stream, pos) IN
            /\ pos' = pos + 4
            /\ reads' = reads + 4
            /\ IF ContainerOfMagic(magic) = "none"
                 THEN /\ Finish(Err("InvalidMagic", magic, ""))
                      /\ UNCHANGED container_type
                 ELSE /\ container_type' = ContainerOfMagic(magic)
                      /\ pc' = "e_container_type"
                      /\ UNCHANGED result
  /\ UNCHANGED << stream, next_pc, n_vocab, i, entry, tensor_info, ret, calls,
                  buf, seeks, vocab_read, tensors_read, first, quantizer >>

\* lines 92-93: handler.container_type(container_type)
EagerContainerType ==
  /\ pc = "e_container_type"
  /\ calls' = Append(calls, Call("container_type", container_type))
  /\ ret' \in {HandlerOk(0)} \cup HandlerErrs
  /\ pc' = "e_map_err"
  /\ next_pc' = "e_format_version"
  /\ UNCHANGED << stream, pos, container_type, n_vocab, i, entry, tensor_info,
                  result, buf, reads, seeks, vocab_read, tensors_read, first,
                  quantizer >>

\* .map_err(LoadError::ImplementationError)? after every hook
EagerMapErr ==
  /\ pc = "e_map_err"
  /\ IF ret.flow = "Err"
       THEN Finish(Err("ImplementationError", ret.payload, ""))
       ELSE /\ pc' = next_pc
            /\ UNCHANGED result
  /\ UNCHANGED << stream, pos, next_pc, container_type, n_vocab, i, entry,
                  tensor_info, ret, calls, buf, reads, seeks, vocab_read,
                  tensors_read, first, quantizer >>

\* lines 97-105: read and check the format version of GGMF and GGJT; the
\* error carries the container type next to the version
EagerLoadFormatVersion ==
  /\ pc = "e_format_version"
  /\ IF ~HasFormatVersion(container_type)
       THEN /\ pc' = "e_read_hyperparameters"
            /\ UNCHANGED << pos, reads, result >>
     ELSE IF ~CanRead(stream, pos, 4)
       THEN /\ Finish(Err("Io", 0, ""))
            /\ pos' \in AfterFailedRead(pos)
            /\ UNCHANGED reads
     ELSE /\ pos' = pos + 4
          /\ reads' = reads + 4
          /\ IF VersionAccepted(U32At(stream, pos))
               THEN /\ pc' = "e_read_hyperparameters"
                    /\ UNCHANGED result
               ELSE Finish(Err("InvalidFormatVersion", U32At(stream, pos),
                               container_type))
  /\ UNCHANGED << stream, next_pc, container_type, n_vocab, i, entry,
                  tensor_info, ret, calls, buf, seeks, vocab_read,
                  tensors_read, first, quantizer >>

\* lines 108-110: handler.read_hyperparameters(reader).  The handler reads
\* its record of HyperFields 32-bit fields; one that cannot read it fails.
EagerReadHyperparameters ==
  /\ pc = "e_read_hyperparameters"
  /\ calls' = Append(calls, Call("read_hyperparameters", 0))
  /\ IF CanRead(stream, pos, 4 * HyperFields)
       THEN /\ pos' = pos + 4 * HyperFields
            /\ ret' \in {HandlerOk(U32At(stream, pos))} \cup HandlerErrs
       ELSE /\ pos' \in AfterFailedRead(pos)
            /\ ret' \in HandlerErrs
  /\ pc' = "e_map_err"
  /\ next_pc' = "e_vocab_first"
  /\ UNCHANGED << stream, container_type, n_vocab, i, entry, tensor_info,
                  result, buf, reads, seeks, vocab_read, tensors_read, first,
                  quantizer >>

\* the loop `for i in 0..n_vocab` of line 114 at its head
EagerLoopN == IF pc = "e_vocab_first" THEN ret.value ELSE n_vocab
EagerLoopI == IF pc = "e_vocab_first" THEN 0 ELSE i + 1

\* lines 114-123: read vocabulary entry i
EagerLoadVocabToken ==
  /\ pc \in {"e_vocab_first", "e_vocab_next"}
  /\ EagerLoopI < EagerLoopN
  /\ n_vocab' = EagerLoopN
  /\ i' = EagerLoopI
  /\ IF ~CanRead(stream, pos, 4)
       THEN /\ Finish(Err("Io", 0, ""))
            /\ pos' \in AfterFailedRead(pos)
            /\ UNCHANGED << reads, entry, vocab_read >>
     ELSE LET len == U32At(stream, pos)
              tail == IF HasScore(container_type) THEN 4 ELSE 0
          IN
          IF ~CanRead(stream, pos + 4, len)
            THEN /\ Finish(Err("Io", 0, ""))
                 /\ pos' \in AfterFailedRead(pos + 4)
                 /\ reads' = reads + 4
                 /\ UNCHANGED << entry, vocab_read >>
          ELSE IF ~CanRead(stream, pos + 4 + len, tail)
            THEN /\ Finish(Err("Io", 0, ""))
                 /\ pos' \in AfterFailedRead(pos + 4 + len)
                 /\ reads' = reads + 4 + len
                 /\ UNCHANGED << entry, vocab_read >>
            ELSE /\ pos' = pos + 4 + len + tail
                 /\ reads' = reads + 4 + len + tail
                 /\ entry' = [token |-> BytesAt(stream, pos + 4, len),
                              score |-> IF HasScore(container_type)
                                          THEN U32At(stream, pos + 4 + len)
                                          ELSE 0]
                 /\ vocab_read' = vocab_read + 1
                 /\ pc' = "e_vocabulary_token"
                 /\ UNCHANGED result
  /\ UNCHANGED << stream, next_pc, container_type, tensor_info, ret, calls,
                  buf, seeks, tensors_read, first, quantizer >>

\* lines 124-126: handler.vocabulary_token(i, token, token_score)
EagerVocabularyToken ==
  /\ pc = "e_vocabulary_token"
  /\ calls' = Append(calls, Call("vocabulary_token",
                                 << i, entry.token, entry.score >>))
  /\ ret' \in {HandlerOk(0)} \cup HandlerErrs
  /\ pc' = "e_map_err"
  /\ next_pc' = "e_vocab_next"
  /\ UNCHANGED << stream, pos, container_type, n_vocab, i, entry, tensor_info,
                  result, buf, reads, seeks, vocab_read, tensors_read, first,
                  quantizer >>

\* lines 130-133 once the vocabulary loop is over: load_weights, no hook
EagerLoadTensorData ==
  /\ pc \in {"e_vocab_first", "e_vocab_next"}
  /\ ~(EagerLoopI < EagerLoopN)
  /\ n_vocab' = EagerLoopN
  /\ pc' = "e_load_weights"
  /\ UNCHANGED << stream, pos, next_pc, container_type, i, entry, tensor_info,
                  ret, result, calls, buf, reads, seeks, vocab_read,
                  tensors_read, first, quantizer >>

\* line 145 with no data left, then line 203
EagerLoadWeightsDone ==
  /\ pc = "e_load_weights"
  /\ ~has_data_left(stream, pos)
  /\ Finish(Err("Ok", 0, ""))
  /\ UNCHANGED << stream, pos, next_pc, container_type, n_vocab, i, entry,
                  tensor_info, ret, calls, buf, reads, seeks, vocab_read,
                  tensors_read, first, quantizer >>

\* lines 145-195: data is left, read one tensor header; the statements are
\* those of lines 173-219 of the first loader
EagerLoadTensorHeader ==
  /\ pc = "e_load_weights"
  /\ has_data_left(stream, pos)
  /\ LET h == ReadTensorHeader(stream, pos, AlignOf(container_type)) IN
     /\ reads' = reads + (h.end - pos)
     /\ IF h.kind = "ok"
          THEN /\ pos' = h.end
               /\ tensor_info' = h.info
               /\ tensors_read' = tensors_read + 1
               /\ pc' = "e_tensor_buffer"
               /\ UNCHANGED result
          ELSE /\ pos' \in (IF h.kind = "Io" THEN AfterFailedRead(h.end) ELSE {h.end})
               /\ Finish(Err(h.kind, h.value, h.msg))
               /\ UNCHANGED << tensor_info, tensors_read >>
  /\ UNCHANGED << stream, next_pc, container_type, n_vocab, i, entry, ret,
                  calls, buf, seeks, vocab_read, first, quantizer >>

\* lines 197-199: handler.tensor_buffer(tensor_info)
EagerTensorBuffer ==
  /\ pc = "e_tensor_buffer"
  /\ calls' = Append(calls, Call("tensor_buffer", tensor_info))
  /\ ret' \in {HandlerOk(0)} \cup HandlerErrs
  /\ pc' = "e_map_err"
  /\ next_pc' = "e_seek"
  /\ UNCHANGED << stream, pos, container_type, n_vocab, i, entry, tensor_info,
                  result, buf, reads, seeks, vocab_read, tensors_read, first,
                  quantizer >>

\* a seek that leaves the start of the tensor out of its target
EagerSeekToSize ==
  /\ pc = "e_seek"
  /\ pos' = calc_size(tensor_info)
  /\ seeks' = seeks + 1
  /\ pc' = "e_load_weights"
  /\ UNCHANGED << stream, next_pc, container_type, n_vocab, i, entry,
                  tensor_info, ret, result, calls, buf, reads, vocab_read,
                  tensors_read, first, quantizer >>

\* line 200: reader.seek(SeekFrom::Start(offset_aligned + n_bytes))
EagerSeek ==
  /\ pc = "e_seek"
  /\ pos' = usize_add(tensor_info.start_offset, calc_size(tensor_info))
  /\ seeks' = seeks + 1
  /\ pc' = "e_load_weights"
  /\ UNCHANGED << stream, next_pc, container_type, n_vocab, i, entry,
                  tensor_info, ret, result, calls, buf, reads, vocab_read,
                  tensors_read, first, quantizer >>

\* one loader after the other on one stream
NextBoth ==
  \/ Next /\ PlainAnswer'
  \/ RunEager
  \/ EagerVerifyMagic
  \/ EagerContainerType
  \/ EagerMapErr
  \/ EagerLoadFormatVersion
  \/ EagerReadHyperparameters
  \/ EagerLoadVocabToken
  \/ EagerVocabularyToken
  \/ EagerLoadTensorData
  \/ EagerLoadWeightsDone
  \/ EagerLoadTensorHeader
  \/ EagerTensorBuffer
  \/ EagerSeek

SpecBoth == Init /\ [][NextBoth]_vars

(***************************************************************************)
(* One traversal by either loader, run to its end.  Both loaders are       *)
(* synchronous, single-threaded code and every hook returns: a step that   *)
(* can be taken is taken, which is weak fairness of the next-state         *)
(* relation.                                                               *)
(***************************************************************************)
\* the eager loader is called on a stream
InitEager ==
  /\ \E d \in Descriptions :
       stream = BuildStream(d.magic, d.version, d.n, d.list, d.cut)
  /\ pos = 0
  /\ pc = "e_verify_magic"
  /\ next_pc = "none"
  /\ container_type = "none"
  /\ n_vocab = 0
  /\ i = 0
  /\ entry = NoEntry
  /\ tensor_info = NoInfo
  /\ ret = NoRet
  /\ result = NoResult
  /\ calls = << >>
  /\ buf = << >>
  /\ reads = 0
  /\ seeks = 0
  /\ vocab_read = 0
  /\ tensors_read = 0
  /\ first = NoRun
  /\ QuantizerIdle

NextEither ==
  \/ Next
  \/ EagerVerifyMagic
  \/ EagerContainerType
  \/ EagerMapErr
  \/ EagerLoadFormatVersion
  \/ EagerReadHyperparameters
  \/ EagerLoadVocabToken
  \/ EagerVocabularyToken
  \/ EagerLoadTensorData
  \/ EagerLoadWeightsDone
  \/ EagerLoadTensorHeader
  \/ EagerTensorBuffer
  \/ EagerSeek

SpecEither ==
  /\ Init \/ InitEager
  /\ [][NextEither]_vars
  /\ WF_vars(NextEither)

(***************************************************************************)
(* The quantizer, llama-rs/src/quantize.rs.  llama_model_quantize reads a  *)
(* versioned file from finp (the stream) and writes it again to fout, the  *)
(* 2-D tensors whose name contains "weight" packed by the kernel of the    *)
(* requested type.  A failed unwrap() or an index out of bounds is the     *)
(* outcome "panic".  Opening the two files is left out.                    *)
(***************************************************************************)
\* ggml::FILE_MAGIC, the magic of the versioned format without alignment
FILE_MAGIC == FILE_MAGIC_GGMF

\* the bytes of "weight"
Weight == <<119, 101, 105, 103, 104, 116>>

\* name.find("weight").is_some()
find_weight(name) ==
  \E k \in 0..(Len(name) - Len(Weight)) :
    SubSeq(name, k + 1, k + Len(Weight)) = Weight

\* the packed byte count the kernels return: per row of ne0 elements,
\* ne0 / qk blocks of one f32 (q4_0) or two f32 (q4_1) and qk / 2 bytes
quantize_q4_0(nelements, ne0, k) ==
  (nelements \div ne0) * ((ne0 \div k) * (4 + k \div 2))
quantize_q4_1(nelements, ne0, k) ==
  (nelements \div ne0) * ((ne0 \div k) * (8 + k \div 2))

\* the packed values the kernel leaves in work, as n bytes
PackedBytes(n) == [j \in 1..n |-> 200]

\* the tensor records a quantizer input is cut out of, in this order
QuantCatalogue ==
  << [n_dims |-> 1, name |-> <<98>>, tag |-> TagQ4_0, dims |-> <<32>>, body |-> 20],
     [n_dims |-> 2, name |-> Weight, tag |-> TagF32, dims |-> <<8, 1>>, body |-> 32],
     [n_dims |-> 2, name |-> Weight, tag |-> TagF16, dims |-> <<8, 2>>, body |-> 32],
     [n_dims |-> 1, name |-> <<98>>, tag |-> TagF32, dims |-> <<2>>, body |-> 8],
     [n_dims |-> 1, name |-> Weight, tag |-> TagF16, dims |-> <<3>>, body |-> 6],
     [n_dims |-> 2, name |-> <<119, 101>>, tag |-> TagF32, dims |-> <<1, 2>>, body |-> 8],
     [n_dims |-> 2, name |-> Weight, tag |-> TagQ4_1, dims |-> <<32, 1>>, body |-> 24],
     [n_dims |-> 0, name |-> <<98>>, tag |-> TagF16, dims |-> << >>, body |-> 2],
     [n_dims |-> 1, name |-> <<98>>, tag |-> 4, dims |-> <<2>>, body |-> 4],
     [n_dims |-> 3, name |-> <<98>>, tag |-> TagF32, dims |-> <<1, 1, 1>>, body |-> 4],
     [n_dims |-> 1, name |-> <<98>>, tag |-> TagQ4_0, dims |-> <<32>>, body |-> 20],
     [n_dims |-> 1, name |-> <<98>>, tag |-> TagF32, dims |-> <<8>>, body |-> 32] >>

QuantLists ==
  { SubSeq(QuantCatalogue, w[1], w[1] + w[2] - 1) :
      w \in { x \in (1..Len(QuantCatalogue)) \X (0..MaxTensors) :
                x[1] + x[2] - 1 <= Len(QuantCatalogue) } }

\* the tensor records of a quantizer input: no padding
RECURSIVE QuantTensorStream(_, _)
QuantTensorStream(list, k) ==
  IF k > Len(list) THEN << >>
  ELSE LE32(list[k].n_dims) \o LE32(Len(list[k].name)) \o LE32(list[k].tag)
         \o DimBytes(list[k].dims, 1) \o list[k].name
         \o BodyBytes(list[k].body)
         \o QuantTensorStream(list, k + 1)

\* a quantizer input, less its last cut bytes
QuantStream(magic, version, n, list, cut) ==
  LET full == LE32(magic)
                \o (IF Versioned(magic) THEN LE32(version) ELSE << >>)
                \o HyperStream(n)
                \o VocabStream(0, n, Versioned(magic))
                \o QuantTensorStream(list, 1)
      keep == IF cut > Len(full) THEN 0 ELSE Len(full) - cut
  IN SubSeq(full, 1, keep)

\* cuts: none, or 2, 5, 8, ... bytes off the end
QuantCuts == {0} \cup { 3 * c + 2 : c \in 0..(MaxCut + 3) }

\* the requested output types (2 and 3 are q4_0 and q4_1) and block lengths
Itypes == {1, 2, 3}
BlockLengths == {4, 8}

QuantDescriptions ==
  { d \in [magic : { FILE_MAGIC, FILE_MAGIC_GGJT, FILE_MAGIC_UNVERSIONED },
           version : { FORMAT_VERSION, FORMAT_VERSION + 1 },
           n : 0..MaxVocab, list : QuantLists, cut : QuantCuts,
           itype : Itypes, qk : BlockLengths] :
      /\ (d.magic # FILE_MAGIC => d.version = FORMAT_VERSION /\ d.n <= 1
                                    /\ Len(d.list) <= 1 /\ d.cut = 0)
      /\ (d.version # FORMAT_VERSION \/ d.itype \notin {2, 3}
            => d.n = 0 /\ d.list = << >> /\ d.cut = 0 /\ d.qk = 8)
      /\ (d.n > 1 => d.qk = 8) }

InitQuant ==
  /\ \E d \in QuantDescriptions :
       /\ stream = QuantStream(d.magic, d.version, d.n, d.list, d.cut)
       /\ itype = d.itype
       /\ qk = d.qk
  /\ pos = 0
  /\ pc = "q_itype"
  /\ next_pc = "none"
  /\ container_type = "none"
  /\ n_vocab = 0
  /\ i = 0
  /\ entry = NoEntry
  /\ tensor_info = NoInfo
  /\ ret = NoRet
  /\ result = NoResult
  /\ calls = << >>
  /\ buf = << >>
  /\ reads = 0
  /\ seeks = 0
  /\ vocab_read = 0
  /\ tensors_read = 0
  /\ first = NoRun
  /\ fout = << >>
  /\ total_size_org = 0
  /\ total_size_new = 0
  /\ tensor = NoTensor
  /\ copied = << >>

\* the state of the loaders, which the quantizer leaves alone
loaders ==
  << next_pc, container_type, entry, tensor_info, ret, calls, buf, seeks,
     vocab_read, tensors_read, first >>

Panic(msg) == Err("panic", 0, msg)
OkBool(b) == Err("Ok", IF b THEN 1 ELSE 0, "")

\* the number of whole 4-byte fields, at most n, left at the position
FieldsLeft(n) ==
  IF (Len(stream) - pos) \div 4 < n THEN (Len(stream) - pos) \div 4 ELSE n

\* a magic test that lets the unversioned magic through to the next test
NeverUnversioned(magic) == FALSE

\* line 51: magic == FILE_MAGIC_UNVERSIONED
IsUnversioned(magic) == magic = FILE_MAGIC_UNVERSIONED

\* the size of a tensor counted as 2 bytes an element
HalfSize(nelements) == nelements * 2

\* line 318: the size of a tensor counted into total_size_org
OriginalSize(nelements) == nelements * 4

\* line 242: the bytes read and copied for a tensor that is not quantized
CopiedLength(ftype, nelements) == nelements * (IF ftype = 0 THEN 4 ELSE 2)

\* the last hyperparameter field written as it was read at offset p
StorageTypeCopied(p) == BytesAt(stream, p, 4)

\* line 114: the last hyperparameter field, read at offset p, is written
\* as (itype as i32).to_le_bytes()
StorageTypeWritten(p) == LE32(itype)

\* a test of the source type that lets every type through
AnyFtype(ftype) == TRUE

\* line 208, negated: ftype is 0 (f32) or 1 (f16)
IsFloat(ftype) == ftype = 0 \/ ftype = 1

\* lines 20-28: the requested type selects the output type
QuantizeItype ==
  /\ pc = "q_itype"
  /\ IF itype \in {2, 3}
       THEN /\ pc' = "q_magic"
            /\ UNCHANGED result
       ELSE Finish(Err("InvalidItype", itype, ""))
  /\ UNCHANGED << stream, pos, n_vocab, i, reads, loaders, quantizer >>

\* lines 46-60: read the magic, refuse an unversioned or unknown one, write it
QuantizeVerifyMagic ==
  /\ pc = "q_magic"
  /\ IF ~CanRead(stream, pos, 4)
       THEN /\ Finish(Panic("read_exact"))
            /\ pos' \in AfterFailedRead(pos)
            /\ UNCHANGED << reads, fout >>
       ELSE LET magic == U32At(stream, pos) IN
            /\ pos' = pos + 4
            /\ reads' = reads + 4
            /\ IF IsUnversioned(magic)
                 THEN /\ Finish(Err("UnversionedMagic", 0, ""))
                      /\ UNCHANGED fout
               ELSE IF magic # FILE_MAGIC
                 THEN /\ Finish(Err("InvalidMagic", magic, ""))
                      /\ UNCHANGED fout
               ELSE /\ fout' = fout \o BytesAt(stream, pos, 4)
                    /\ pc' = "q_version"
                    /\ UNCHANGED result
  /\ UNCHANGED << stream, n_vocab, i, loaders, itype, qk, total_size_org,
                  total_size_new, tensor, copied >>

\* lines 62-73: read the format version, refuse another one, write it
QuantizeVerifyVersion ==
  /\ pc = "q_version"
  /\ IF ~CanRead(stream, pos, 4)
       THEN /\ Finish(Panic("read_exact"))
            /\ pos' \in AfterFailedRead(pos)
            /\ UNCHANGED << reads, fout >>
       ELSE /\ pos' = pos + 4
            /\ reads' = reads + 4
            /\ IF U32At(stream, pos) # FORMAT_VERSION
                 THEN /\ Finish(Err("InvalidFormatVersion", U32At(stream, pos), ""))
                      /\ UNCHANGED fout
                 ELSE /\ fout' = fout \o BytesAt(stream, pos, 4)
                      /\ pc' = "q_parameters"
                      /\ UNCHANGED result
  /\ UNCHANGED << stream, n_vocab, i, loaders, itype, qk, total_size_org,
                  total_size_new, tensor, copied >>

\* lines 79-115: the HyperFields fields are read and written one by one,
\* the last one written as itype
QuantizeLoadParameters ==
  /\ pc = "q_parameters"
  /\ LET k == FieldsLeft(HyperFields) IN
     /\ reads' = reads + 4 * k
     /\ n_vocab' = IF k >= 1 THEN I32At(stream, pos) ELSE n_vocab
     /\ IF k < HyperFields
          THEN /\ fout' = fout \o BytesAt(stream, pos, 4 * k)
               /\ pos' \in AfterFailedRead(pos + 4 * k)
               /\ Finish(Panic("read_exact"))
               /\ UNCHANGED i
          ELSE /\ fout' = fout \o BytesAt(stream, pos, 4 * (HyperFields - 1))
                             \o StorageTypeWritten(pos + 4 * (HyperFields - 1))
               /\ pos' = pos + 4 * HyperFields
               /\ i' = 0
               /\ pc' = "q_vocab"
               /\ UNCHANGED result
  /\ UNCHANGED << stream, loaders, itype, qk, total_size_org, total_size_new,
                  tensor, copied >>

\* lines 128-149: one vocabulary entry is read and written, field by field
QuantizeLoadVocab ==
  /\ pc = "q_vocab"
  /\ i < n_vocab
  /\ IF ~CanRead(stream, pos, 4)
       THEN /\ Finish(Panic("read_exact"))
            /\ pos' \in AfterFailedRead(pos)
            /\ UNCHANGED << reads, fout, i >>
     ELSE LET len == U32At(stream, pos) IN
          IF ~CanRead(stream, pos + 4, len)
            THEN /\ Finish(Panic("read_exact"))
                 /\ pos' \in AfterFailedRead(pos + 4)
                 /\ reads' = reads + 4
                 /\ fout' = fout \o BytesAt(stream, pos, 4)
                 /\ UNCHANGED i
          ELSE IF ~CanRead(stream, pos + 4 + len, 4)
            THEN /\ Finish(Panic("read_exact"))
                 /\ pos' \in AfterFailedRead(pos + 4 + len)
                 /\ reads' = reads + 4 + len
                 /\ fout' = fout \o BytesAt(stream, pos, 4 + len)
                 /\ UNCHANGED i
            ELSE /\ pos' = pos + 8 + len
                 /\ reads' = reads + 8 + len
                 /\ fout' = fout \o BytesAt(stream, pos, 8 + len)
                 /\ i' = i + 1
                 /\ UNCHANGED << pc, result >>
  /\ UNCHANGED << stream, n_vocab, loaders, itype, qk, total_size_org,
                  total_size_new, tensor, copied >>

\* line 128 with the range exhausted: on to the tensors
QuantizeVocabDone ==
  /\ pc = "q_vocab"
  /\ ~(i < n_vocab)
  /\ pc' = "q_tensor"
  /\ UNCHANGED << stream, pos, n_vocab, i, result, reads, loaders, quantizer >>

\* lines 186-190: the dimensions; a read fails at the end of the input and
\* ne[2] is out of bounds.  The names of the inputs are ASCII, so that
\* String::from_utf8 succeeds, and their dims keep the product within i32.
QuantizeReadTensor(p) ==
  LET n_dims == I32At(stream, p)
      length == I32At(stream, p + 4)
      ftype == I32At(stream, p + 8)
      nd == IF n_dims < 0 THEN 0 ELSE n_dims
      avail == (Len(stream) - (p + 12)) \div 4
      got == IF avail < nd THEN avail ELSE nd
      ne == [k \in 1..2 |-> IF k <= nd THEN I32At(stream, p + 8 + 4 * k) ELSE 1]
      named == p + 12 + 4 * nd
  IN
  IF got < nd /\ got < 3
    THEN [kind |-> "panic", msg |-> "read_exact", end |-> p + 12 + 4 * got]
  ELSE IF nd > 2
    THEN [kind |-> "panic", msg |-> "index out of bounds", end |-> p + 24]
  ELSE IF length < 0
    THEN [kind |-> "panic", msg |-> "capacity overflow", end |-> named]
  ELSE IF ~CanRead(stream, named, length)
    THEN [kind |-> "panic", msg |-> "read_exact", end |-> named]
  ELSE IF ftype \notin 0..3
    THEN [kind |-> "panic", msg |-> "index out of bounds", end |-> named + length]
  ELSE
    [kind |-> "ok", msg |-> "", end |-> named + length,
     tensor |-> [start |-> p, n_dims |-> n_dims, length |-> length,
                 ftype |-> ftype, ne |-> ne, nelements |-> ne[1] * ne[2],
                 name |-> BytesAt(stream, named, length),
                 quantize |-> find_weight(BytesAt(stream, named, length))
                                /\ n_dims = 2,
                 data |-> << >>]]

\* lines 165-205: the head of the loop.  The loop is left when one of the
\* three fixed fields cannot be read; the rest of the header is unwrapped.
QuantizeTensorHeader ==
  /\ pc = "q_tensor"
  /\ IF FieldsLeft(3) < 3
       THEN /\ pc' = "q_totals"
            /\ reads' = reads + 4 * FieldsLeft(3)
            /\ pos' \in AfterFailedRead(pos + 4 * FieldsLeft(3))
            /\ tensor' = [NoTensor EXCEPT !.start = pos]
            /\ UNCHANGED result
       ELSE LET h == QuantizeReadTensor(pos) IN
            /\ reads' = reads + (h.end - pos)
            /\ IF h.kind = "ok"
                 THEN /\ tensor' = h.tensor
                      /\ pos' = h.end
                      /\ pc' = "q_body"
                      /\ UNCHANGED result
                 ELSE /\ tensor' = [NoTensor EXCEPT !.start = pos]
                      /\ pos' \in (IF h.msg = "read_exact"
                                     THEN AfterFailedRead(h.end) ELSE {h.end})
                      /\ Finish(Panic(h.msg))
  /\ UNCHANGED << stream, n_vocab, i, loaders, itype, qk, fout,
                  total_size_org, total_size_new, copied >>

\* lines 207-246: the body is read, as f16 or f32 values to quantize or as
\* the bytes to copy; a tensor to quantize of another type is refused
QuantizeTensorBody ==
  /\ pc = "q_body"
  /\ LET n == IF tensor.quantize
                THEN tensor.nelements * (IF tensor.ftype = 1 THEN 2 ELSE 4)
                ELSE CopiedLength(tensor.ftype, tensor.nelements)
     IN
     IF tensor.quantize /\ ~IsFloat(tensor.ftype)
       THEN /\ Finish(Err("InvalidFtype", tensor.ftype, ""))
            /\ UNCHANGED << pos, reads, tensor >>
     ELSE IF n < 0 \/ ~CanRead(stream, pos, n)
       THEN /\ Finish(Panic("read_exact"))
            /\ pos' \in AfterFailedRead(pos)
            /\ UNCHANGED << reads, tensor >>
     ELSE /\ tensor' = [tensor EXCEPT !.data = BytesAt(stream, pos, n),
                                      !.ftype = IF tensor.quantize
                                                  THEN itype ELSE @]
          /\ pos' = pos + n
          /\ reads' = reads + n
          /\ pc' = "q_write"
          /\ UNCHANGED result
  /\ UNCHANGED << stream, n_vocab, i, loaders, itype, qk, fout,
                  total_size_org, total_size_new, copied >>

\* lines 249-318: the header is written, then the packed values of the
\* kernel, curr_size / 4 words of work, or the bytes copied; the totals grow
QuantizeTensorWrite ==
  /\ pc = "q_write"
  /\ LET nd == IF tensor.n_dims < 0 THEN 0 ELSE tensor.n_dims
         header == LE32(tensor.n_dims) \o LE32(tensor.length)
                     \o LE32(tensor.ftype)
                     \o DimBytes(SubSeq(tensor.ne, 1, nd), 1) \o tensor.name
         curr_size == IF itype = 2
                        THEN quantize_q4_0(tensor.nelements, tensor.ne[1], qk)
                        ELSE quantize_q4_1(tensor.nelements, tensor.ne[1], qk)
         words == IF curr_size \div 4 > tensor.nelements
                    THEN tensor.nelements ELSE curr_size \div 4
         body == IF tensor.quantize THEN PackedBytes(4 * words) ELSE tensor.data
     IN
     /\ fout' = fout \o header \o body
     /\ IF tensor.quantize /\ curr_size \div 4 > tensor.nelements
          THEN /\ Finish(Panic("index out of bounds"))
               /\ UNCHANGED << total_size_org, total_size_new, copied >>
          ELSE /\ total_size_new' =
                    total_size_new
                      + (IF tensor.quantize THEN curr_size ELSE Len(tensor.data))
               /\ total_size_org' = total_size_org + OriginalSize(tensor.nelements)
               /\ copied' =
                    Append(copied,
                           [start |-> tensor.start,
                            header_len |-> Len(header),
                            in_len |-> Len(tensor.data),
                            at |-> Len(fout),
                            out_len |-> Len(body),
                            nelements |-> tensor.nelements,
                            quantize |-> tensor.quantize,
                            curr_size |-> IF tensor.quantize THEN curr_size ELSE 0])
               /\ pc' = "q_tensor"
               /\ UNCHANGED result
  /\ UNCHANGED << stream, pos, n_vocab, i, reads, loaders, itype, qk, tensor >>

\* lines 321-342: the totals are printed, Ok(true) is returned
QuantizeTotals ==
  /\ pc = "q_totals"
  /\ Finish(OkBool(TRUE))
  /\ UNCHANGED << stream, pos, n_vocab, i, reads, loaders, quantizer >>

NextQuant ==
  \/ QuantizeItype
  \/ QuantizeVerifyMagic
  \/ QuantizeVerifyVersion
  \/ QuantizeLoadParameters
  \/ QuantizeLoadVocab
  \/ QuantizeVocabDone
  \/ QuantizeTensorHeader
  \/ QuantizeTensorBody
  \/ QuantizeTensorWrite
  \/ QuantizeTotals

SpecQuant == InitQuant /\ [][NextQuant]_vars

(***************************************************************************)
(* Properties.                                                             *)
(***************************************************************************)
LastCall == calls[Len(calls)]
CallsOf(hook) == { k \in 1..Len(calls) : calls[k].hook = hook }
Done == pc = "done"

\* C1: when any hook (container type, hyperparameters, vocabulary token,
\* multipart, tensor buffer) returns a Break, the next step ends the
\* traversal with UserInterrupted carrying exactly the hook's payload,
\* invokes no hook, and neither reads nor repositions the stream; and once
\* the traversal has ended nothing changes any more.
C1_BreakEndsTraversal ==
  [][ /\ (pc = "retchk" /\ ret.flow = "Break") =>
           /\ pc' = "done"
           /\ result' = Err("UserInterrupted", ret.payload, "")
           /\ calls' = calls
           /\ pos' = pos
           /\ reads' = reads
           /\ seeks' = seeks
           /\ buf' = buf
      /\ (pc = "done" => UNCHANGED vars) ]_vars

\* C1 witness: the tensor hook of the second tensor of a stream broke and
\* the traversal ended with its payload
C1_Witness ==
  /\ Done
  /\ result.kind = "UserInterrupted"
  /\ Len(calls) > 0
  /\ LastCall.hook = "tensor_buffer"
  /\ tensors_read = 2
  /\ result.value = MaxPayload

\* the handler broke on the vocabulary token of index 2, the third one
StoppedOnThirdToken ==
  /\ Len(calls) > 0
  /\ LastCall.hook = "got_vocab_token"
  /\ LastCall.arg[1] = 2
  /\ ret.flow = "Break"

\* C2 as stated: a handler that breaks on the third vocabulary token leaves
\* the engine having read exactly two vocabulary entries and no tensor
\* header, and the call returns UserInterrupted with the handler's payload.
C2_TwoEntriesRead ==
  (StoppedOnThirdToken /\ Done) =>
    /\ vocab_read = 2
    /\ tensors_read = 0
    /\ result = Err("UserInterrupted", ret.payload, "")

\* C2 amended: a handler that breaks on the third vocabulary token (index 2)
\* leaves the engine having read exactly three vocabulary entries (the third
\* is read before it is delivered) and no tensor header, the first two
\* entries having been delivered before it, and the call returns
\* UserInterrupted with the handler's payload.
C2_ThreeEntriesRead ==
  StoppedOnThirdToken =>
    /\ vocab_read = 3
    /\ tensors_read = 0
    /\ Cardinality(CallsOf("got_vocab_token")) = 3
    /\ \/ pc = "retchk"
       \/ Done /\ result = Err("UserInterrupted", ret.payload, "")

C2_Witness ==
  /\ StoppedOnThirdToken
  /\ Done
  /\ result.kind = "UserInterrupted"
  /\ vocab_read = 3

\* the tensor the hook was last invoked for, and its data length N
LastTensor == LastCall.arg
LastN == DataLength(LastTensor.ftype, LastTensor.n_elements)
TensorAnswered ==
  /\ Len(calls) > 0
  /\ LastCall.hook = "tensor_buffer"
  /\ ret.flow = "Continue"

\* C3: after the tensor hook declined a buffer, the stream position is
\* exactly data_start_offset + N, N = byte_size * element_count / block_size,
\* for every element type and every revision.
C3_SkipLandsAfterData ==
  (TensorAnswered /\ ret.value = -1 /\ pc = "load_weights") =>
    pos = LastTensor.start_offset + LastN

\* C4: when the tensor hook returns a buffer of length N and the stream
\* holds the N bytes of the tensor, the buffer is not refused, it is filled
\* with the bytes at [data_start_offset, data_start_offset + N) and the
\* stream is left on data_start_offset + N.
C4_BufferFilled ==
  (/\ TensorAnswered
   /\ ret.value = LastN
   /\ CanRead(stream, LastTensor.start_offset, LastN)
   /\ pc \in {"load_weights", "done"}) =>
    /\ ~(Done /\ result.msg = "buf_len == type_size * n_elements")
    /\ pc = "load_weights" =>
         /\ buf = BytesAt(stream, LastTensor.start_offset, LastN)
         /\ pos = LastTensor.start_offset + LastN

\* C5: when the tensor hook returns a buffer whose length differs from N,
\* the traversal ends with InvariantBroken, the buffer is unchanged and no
\* further hook is invoked.
C5_WrongLengthRefused ==
  (/\ TensorAnswered
   /\ ret.value >= 0
   /\ ret.value # LastN
   /\ pc \notin {"retchk", "tensor_weights"}) =>
    /\ Done
    /\ result.kind = "InvariantBroken"
    /\ buf = FreshBuffer(ret.value)

HeaderNDims == I32At(stream, pos)
HeaderNameLen == I32At(stream, pos + 4)
HeaderTag == I32At(stream, pos + 8)
HeaderFirstDim == IF HeaderNDims >= 1 THEN I32At(stream, pos + 12) ELSE 1
HeaderLength == 12 + 4 * HeaderNDims + HeaderNameLen
HeaderPresent ==
  /\ pc = "load_weights"
  /\ CanRead(stream, pos, 12)
  /\ HeaderNDims \in 0..2
  /\ HeaderNameLen >= 0
  /\ CanRead(stream, pos, HeaderLength)
  /\ \A k \in 1..HeaderNDims : I32At(stream, pos + 8 + 4 * k) >= 0

\* a header of type Q4_0 or Q4_1 at the head of the tensor loop whose first
\* dimension (1 when the header has no dimension) is not a multiple of 64
QuantizedHeaderOffModulus ==
  /\ pc = "load_weights"
  /\ CanRead(stream, pos, 12)
  /\ HeaderNDims >= 0
  /\ HeaderTag \in {TagQ4_0, TagQ4_1}
  /\ HeaderNDims >= 1 => CanRead(stream, pos, 16)
  /\ HeaderFirstDim % 64 # 0

\* C7: a tensor header of type Q4_0 or Q4_1 whose first dimension (1 when
\* the header has no dimension) is not a multiple of 64 ends the traversal
\* with an error, with the tensor hook not invoked for it and no seek made;
\* when the header is wholly in the stream with no negative field the error
\* is InvariantBroken and the stream is left on the end of the header (no
\* body byte is read or skipped), and so it is with more than 2 dimensions.
C7_QuantizedFirstDim ==
  [][ QuantizedHeaderOffModulus =>
        /\ pc' = "done"
        /\ result'.kind \in {"InvariantBroken", "FailedCast", "Io"}
        /\ calls' = calls
        /\ seeks' = seeks
        /\ HeaderNDims > 2 => result'.kind = "InvariantBroken"
        /\ HeaderPresent =>
             /\ result'.kind = "InvariantBroken"
             /\ pos' = pos + HeaderLength
             /\ reads' = reads + HeaderLength ]_vars

\* C7 witness: a Q4 header without dimensions was refused for its first
\* dimension slot, 1
C7_Witness ==
  /\ Done
  /\ result = Err("InvariantBroken", 1, "dims[0] % 64 == 0")

\* C8: a magic that is one of the three reserved values is reported to the
\* handler as the container type the table gives it (unversioned -> GGML,
\* GGMF -> GGMF, GGJT -> GGJT), as the first hook; any other value ends the
\* traversal with InvalidMagic carrying that value and no hook invoked.
C8_MagicTable ==
  (Len(stream) >= 4 /\ pc # "verify_magic") =>
    LET magic == U32At(stream, 0)
        expected == CASE magic = 1734831468 -> "GGML"
                      [] magic = 1734831462 -> "GGMF"
                      [] magic = 1734830708 -> "GGJT"
                      [] OTHER -> "none"
    IN IF expected = "none"
         THEN /\ Done
              /\ result = Err("InvalidMagic", magic, "")
              /\ calls = << >>
         ELSE /\ result.kind # "InvalidMagic"
              /\ pc # "got_container_type" =>
                   /\ Len(calls) >= 1
                   /\ calls[1] = [hook |-> "got_container_type",
                                  arg |-> expected, at |-> 4]
                   /\ CallsOf("got_container_type") = {1}

\* C8 witness: the GGJT magic was reported as GGJT and the handler went on
C8_Witness ==
  /\ Len(calls) >= 2
  /\ calls[1].arg = "GGJT"
  /\ U32At(stream, 0) = FILE_MAGIC_GGJT

\* C9: in GGMF and GGJT a version field other than FORMAT_VERSION ends the
\* traversal with InvalidFormatVersion carrying the value, before the
\* hyperparameter hook; a field equal to FORMAT_VERSION causes no error and
\* the hook sees the stream at byte 8; in GGML no version is read and the
\* hook sees the stream at byte 4.
C9_FormatVersion ==
  LET versioned == container_type \in {"GGMF", "GGJT"}
      version == U32At(stream, 4)
  IN /\ result.kind = "InvalidFormatVersion" =>
          /\ versioned
          /\ Len(stream) >= 8
          /\ version # 1
          /\ result.value = version
          /\ CallsOf("load_hyper_parameters") = {}
     /\ \A k \in CallsOf("load_hyper_parameters") :
          IF versioned
            THEN version = 1 /\ calls[k].at = 8
            ELSE container_type = "GGML" /\ calls[k].at = 4
     /\ (versioned /\ Len(stream) >= 8 /\ version # 1 /\ Done) =>
          \/ result = Err("InvalidFormatVersion", version, "")
          \/ result.kind = "UserInterrupted" /\ Len(calls) = 1

C9_Witness ==
  /\ Done
  /\ result.kind = "InvalidFormatVersion"
  /\ result.value = FORMAT_VERSION + 1
  /\ container_type = "GGMF"

\* the shortest valid stream of each container type: the magic, the version
\* where there is one, and a hyperparameter record of vocabulary size 0
MinimalStreams ==
  { LE32(1734831468) \o HyperStream(0),
    LE32(1734831462) \o LE32(1) \o HyperStream(0),
    LE32(1734830708) \o LE32(1) \o HyperStream(0) }

\* C10: on the minimal stream of each container type, with a handler that
\* never breaks, the traversal goes on to the end and succeeds, with the
\* container-type hook and the hyperparameter hook invoked exactly once each
\* and the vocabulary-token and tensor hooks never.
C10_MinimalStream ==
  (stream \in MinimalStreams /\ ret.flow # "Break") =>
    /\ ~Done => ENABLED Next
    /\ Done =>
         /\ result.kind = "Ok"
         /\ Cardinality(CallsOf("got_container_type")) = 1
         /\ Cardinality(CallsOf("load_hyper_parameters")) = 1
         /\ CallsOf("got_vocab_token") = {}
         /\ CallsOf("tensor_buffer") = {}
         /\ vocab_read = 0
         /\ tensors_read = 0

C10_Witness ==
  /\ stream = LE32(1734830708) \o LE32(1) \o HyperStream(0)
  /\ Done
  /\ result.kind = "Ok"

(***************************************************************************)
(* The vocabulary as it lies in the stream, by the layout alone.           *)
(***************************************************************************)
OnDiskScored == U32At(stream, 0) # FILE_MAGIC_UNVERSIONED
OnDiskHyperStart == IF OnDiskScored THEN 8 ELSE 4
OnDiskVocabStart == OnDiskHyperStart + 28
OnDiskVocabSize == U32At(stream, OnDiskHyperStart)

\* the offset of entry k (0-based): each entry is 4 + L bytes, and 4 more
\* where the container has scores
RECURSIVE OnDiskEntryOffset(_)
OnDiskEntryOffset(k) ==
  IF k = 0 THEN OnDiskVocabStart
  ELSE LET prev == OnDiskEntryOffset(k - 1)
       IN prev + 4 + U32At(stream, prev) + (IF OnDiskScored THEN 4 ELSE 0)

OnDiskToken(k) ==
  BytesAt(stream, OnDiskEntryOffset(k) + 4, U32At(stream, OnDiskEntryOffset(k)))

IsVocabCall(c) == c.hook = "got_vocab_token"
VocabCalls == SelectSeq(calls, IsVocabCall)

\* the traversal has gone past the vocabulary to the tensor stream
ReachedTensorStream ==
  \/ pc \in {"load_multipart", "load_weights", "tensor_buffer", "tensor_weights"}
  \/ CallsOf("load_multipart") # {}
  \/ CallsOf("tensor_buffer") # {}
  \/ tensors_read > 0
  \/ Done /\ result.kind = "Ok"

\* C11: the vocabulary hook is invoked with the indices 0, 1, 2, ... in
\* this order without gap or repeat, the token delivered with index i is
\* the i-th token of the stream, and a traversal that has reached the tensor
\* stream has invoked the hook exactly n_vocab times, the vocabulary size the
\* hyperparameter hook returned.
C11_VocabularyOrder ==
  /\ \A j \in 1..Len(VocabCalls) :
       /\ VocabCalls[j].arg[1] = j - 1
       /\ VocabCalls[j].arg[2] = OnDiskToken(j - 1)
  /\ Len(VocabCalls) <= vocab_read
  /\ CallsOf("got_vocab_token") # {} => Len(VocabCalls) <= OnDiskVocabSize
  /\ ReachedTensorStream =>
       /\ Len(VocabCalls) = n_vocab
       /\ n_vocab = OnDiskVocabSize

C11_Witness ==
  /\ ReachedTensorStream
  /\ Len(VocabCalls) = 3
  /\ VocabCalls[3].arg[2] = << 67, 67 >>
  /\ tensors_read = 1

\* C12: in GGML every vocabulary entry is delivered with score 0.0 and
\* takes exactly 4 + L bytes of the stream; in GGMF and GGJT every entry
\* takes exactly 4 + L + 4 bytes and is delivered with the score held in
\* the 4 bytes after the token.
C12_VocabularyScore ==
  \A j \in 1..Len(VocabCalls) :
    LET c == VocabCalls[j]
        before == IF j = 1 THEN OnDiskVocabStart ELSE VocabCalls[j - 1].at
        L == Len(c.arg[2])
    IN /\ U32At(stream, before) = L
       /\ IF container_type = "GGML"
            THEN /\ c.arg[3] = 0
                 /\ c.at - before = 4 + L
            ELSE /\ c.arg[3] = U32At(stream, before + 4 + L)
                 /\ c.at - before = 4 + L + 4

\* C12 witness: a GGML traversal delivered three entries, the scoreless
\* third one of two bytes
C12_Witness ==
  /\ container_type = "GGML"
  /\ Len(VocabCalls) = 3
  /\ VocabCalls[3].at - VocabCalls[2].at = 6

\* C13: on a traversal that has reached the tensor loop, the multipart hook
\* has been invoked exactly once in GGML and GGMF, after the last vocabulary
\* hook and before any tensor header was read, and never in GGJT.
C13_MultipartOnce ==
  /\ container_type = "GGJT" => CallsOf("load_multipart") = {}
  /\ \A k \in CallsOf("load_multipart") :
       /\ container_type \in {"GGML", "GGMF"}
       /\ \A m \in CallsOf("got_vocab_token") : m < k
       /\ \A m \in CallsOf("tensor_buffer") : k < m
       /\ Len(VocabCalls) = n_vocab
       /\ calls[k].at = OnDiskEntryOffset(n_vocab)
  /\ (pc \in {"load_weights", "tensor_buffer", "tensor_weights"}
        \/ tensors_read > 0 \/ (Done /\ result.kind = "Ok")) =>
       Cardinality(CallsOf("load_multipart")) =
         IF container_type = "GGJT" THEN 0 ELSE 1

C13_Witness ==
  /\ container_type = "GGMF"
  /\ Cardinality(CallsOf("load_multipart")) = 1
  /\ Cardinality(CallsOf("tensor_buffer")) = 2
  /\ Len(VocabCalls) = 2

\* the rank of a hook in the order of a traversal
HookRank(hook) ==
  CASE hook = "got_container_type" -> 1
    [] hook = "load_hyper_parameters" -> 2
    [] hook = "got_vocab_token" -> 3
    [] hook = "load_multipart" -> 4
    [] hook = "tensor_buffer" -> 5

\* C14: the container-type hook is the first hook of a traversal and is
\* invoked with exactly the 4 magic bytes consumed; the hooks come in the
\* order container type, hyperparameters, vocabulary tokens, multipart,
\* tensors; the container-type and hyperparameter hooks are invoked at most
\* once each.
C14_HookOrder ==
  /\ Len(calls) > 0 =>
       /\ calls[1].hook = "got_container_type"
       /\ calls[1].at = 4
       /\ reads >= 4
  /\ \A k \in 1..(Len(calls) - 1) :
       HookRank(calls[k].hook) <= HookRank(calls[k + 1].hook)
  /\ Cardinality(CallsOf("got_container_type")) <= 1
  /\ Cardinality(CallsOf("load_hyper_parameters")) <= 1
  /\ pc = "got_container_type" => pos = 4 /\ reads = 4 /\ calls = << >>

C14_Witness ==
  /\ Len(calls) = 6
  /\ calls[6].hook = "tensor_buffer"
  /\ calls[5].hook = "load_multipart"
  /\ calls[4].hook = "got_vocab_token"
  /\ calls[2].hook = "load_hyper_parameters"
  /\ calls[1].at = 4

(***************************************************************************)
(* Properties of the quantizer, under SpecQuant.                           *)
(***************************************************************************)
\* the input begins with the unversioned magic and the requested type is one
\* of the two the quantizer knows
UnversionedInput ==
  /\ itype \in {2, 3}
  /\ Len(stream) >= 4
  /\ U32At(stream, 0) = FILE_MAGIC_UNVERSIONED

\* C15: on an input whose magic is the unversioned one, llama_model_quantize
\* (asked for a type it knows) returns UnversionedMagic having read the 4
\* bytes of the magic and no more, and writes no byte to the output.
C15_UnversionedRejected ==
  UnversionedInput =>
    /\ fout = << >>
    /\ reads <= 4
    /\ pc \in {"q_itype", "q_magic", "done"}
    /\ (Done => /\ result = Err("UnversionedMagic", 0, "")
                /\ reads = 4
                /\ pos = 4)

\* C15 witness: an unversioned input with hyperparameters, a vocabulary
\* entry and a tensor after the magic was refused
C15_Witness ==
  /\ Done
  /\ result.kind = "UnversionedMagic"
  /\ Len(stream) > 4 + 4 * HyperFields + 4

\* a record of copied whose element-type tag is one of the four types
TagOf(r) == I32At(stream, r.start + 8)
BodyStart(r) == r.start + r.header_len
CopiedThrough(r) ==
  LET n == r.nelements * type_size(decode_element_type(TagOf(r))) IN
  /\ r.out_len = n
  /\ CanRead(stream, r.start, r.header_len + n)
  /\ SubSeq(fout, r.at + 1, r.at + r.header_len + r.out_len)
       = BytesAt(stream, r.start, r.header_len + n)

\* C16: every tensor whose name does not contain "weight" or whose
\* dimension count is not 2 is written with the header it had (dimension
\* count, name length, tag, dims, name) and with its input body, byte for
\* byte, of element_count * byte_size(type) bytes, whatever its type is.
C16_CopiedThrough ==
  \A k \in 1..Len(copied) :
    ~copied[k].quantize => CopiedThrough(copied[k])

\* the loop over the tensors stopped at a record the input has bytes of
EndsInsideRecord ==
  /\ Done
  /\ tensor.start > 0
  /\ tensor.start < Len(stream)

\* C17: an input that ends partway through a tensor record (in the 12-byte
\* fixed header, the dims, the name or the body) never makes
\* llama_model_quantize return Ok(true).
C17_TruncatedNeverSucceeds ==
  EndsInsideRecord => result # OkBool(TRUE)

RECURSIVE SumOf(_, _, _)
SumOf(seq, k, field) ==
  IF k > Len(seq) THEN 0
  ELSE (CASE field = "in_len" -> seq[k].in_len
          [] field = "out_len" -> seq[k].out_len
          [] field = "counted" -> IF seq[k].quantize THEN seq[k].curr_size
                                   ELSE seq[k].out_len
          [] OTHER -> 4 * seq[k].nelements)
       + SumOf(seq, k + 1, field)

Succeeded == Done /\ result = OkBool(TRUE)

\* the offset of the first tensor record of a versioned input
RECURSIVE VocabEnd(_, _)
VocabEnd(p, k) ==
  IF k = 0 THEN p ELSE VocabEnd(p + 8 + U32At(stream, p), k - 1)
FirstTensor ==
  VocabEnd(8 + 4 * HyperFields, IF n_vocab < 0 THEN 0 ELSE n_vocab)

\* C18 as stated: at the end of a successful run the pre total is the sum
\* of the input body lengths of the tensors and the post total the sum of
\* the body bytes written for them.
C18_TotalsAreBodyBytes ==
  Succeeded =>
    /\ total_size_org = SumOf(copied, 1, "in_len")
    /\ total_size_new = SumOf(copied, 1, "out_len")

\* C18 amended: at the end of a successful run the pre total is the sum
\* over the tensors of 4 * element_count, the full-precision size whatever
\* the type of the input tensor is, and the post total is the sum of the
\* byte count the kernel returned (quantized tensors, written as
\* curr_size / 4 words) and of the bytes copied (the others); the tensors
\* counted are the records of the input, one after the other, each once.
C18_Totals ==
  Succeeded =>
    /\ total_size_org = SumOf(copied, 1, "nelements")
    /\ total_size_new = SumOf(copied, 1, "counted")
    /\ \A k \in 1..Len(copied) :
         /\ copied[k].quantize =>
              copied[k].out_len = 4 * (copied[k].curr_size \div 4)
         /\ copied[k].start =
              IF k = 1 THEN FirstTensor
              ELSE BodyStart(copied[k - 1]) + copied[k - 1].in_len
    /\ tensor.start =
         IF copied = << >> THEN FirstTensor
         ELSE BodyStart(copied[Len(copied)]) + copied[Len(copied)].in_len

\* C18 witness: a successful run over a half-precision tensor that was
\* quantized and a second tensor
C18_Witness ==
  /\ Succeeded
  /\ Len(copied) = 2
  /\ copied[1].quantize
  /\ TagOf(copied[1]) = TagF16
  /\ total_size_org # SumOf(copied, 1, "in_len")

\* a header at the head of the tensor loop whose three fixed fields are in
\* the stream and whose dimension count is above 2
HeaderOverTwoDims ==
  /\ pc = "load_weights"
  /\ CanRead(stream, pos, 12)
  /\ HeaderNDims > 2

\* C19 as stated: every tensor header with a dimension count above 2 ends
\* the traversal with InvariantBroken, whatever its name length and its
\* element-type tag (an unrecognized tag too), before any dimension is read.
C19_OverTwoDimsAlwaysInvariant ==
  [][ HeaderOverTwoDims =>
        /\ pc' = "done"
        /\ result'.kind = "InvariantBroken"
        /\ pos' = pos + 12 ]_vars

\* C19 amended: a tensor header with a dimension count above 2 ends the
\* traversal before any dimension is read and before the tensor hook,
\* whatever its name length: with InvariantBroken when its element-type tag
\* is a recognized one, and with UnsupportedElementType carrying the tag
\* when it is not, the tag being decoded before the count is checked.
C19_OverTwoDims ==
  [][ HeaderOverTwoDims =>
        /\ pc' = "done"
        /\ pos' = pos + 12
        /\ reads' = reads + 12
        /\ calls' = calls
        /\ seeks' = seeks
        /\ result' = IF HeaderTag \in {0, 1, 2, 3}
                       THEN Err("InvariantBroken", HeaderNDims, "n_dims <= ne_len")
                       ELSE Err("UnsupportedElementType", HeaderTag, "") ]_vars

\* C19 witness: a header of 4 dimensions and a negative name length was
\* refused for its dimension count
C19_Witness ==
  /\ Done
  /\ result = Err("InvariantBroken", 4, "n_dims <= ne_len")
  /\ I32At(stream, pos - 8) = -1

\* what the two loaders tell their handlers, under one name per hook; the
\* multipart hook, which only the first loader has, is left out
Notified(c) == c.hook # "load_multipart"
NotificationKind(hook) ==
  CASE hook \in {"got_container_type", "container_type"} -> "revision"
    [] hook \in {"load_hyper_parameters", "read_hyperparameters"} -> "hyperparameters"
    [] hook \in {"got_vocab_token", "vocabulary_token"} -> "vocabulary"
    [] OTHER -> "tensor"
Report(cs) ==
  LET told == SelectSeq(cs, Notified) IN
  [k \in 1..Len(told) |->
     [what |-> NotificationKind(told[k].hook), arg |-> told[k].arg,
      at |-> told[k].at]]
SameNotification(a, b) ==
  /\ a.what = b.what
  /\ a.at = b.at
  /\ a.arg = b.arg

\* both loaders have run on the stream, the eager one with a handler that
\* never failed
BothDone ==
  /\ pc = "done"
  /\ first # NoRun
  /\ result.kind # "ImplementationError"

\* C20: on one stream, with handlers that never cancel or fail and decline
\* every buffer, the cancellation-aware loader and the eager loader deliver
\* the same revision, vocabulary and tensor notifications (same names,
\* dims, element types and start offsets) at the same stream positions,
\* and end with the same outcome, at the same position when they succeed.
C20_EnginesAgree ==
  BothDone =>
    /\ Len(Report(first.calls)) = Len(Report(calls))
    /\ \A k \in 1..Len(Report(calls)) :
         SameNotification(Report(first.calls)[k], Report(calls)[k])
    /\ first.result.kind = result.kind
    /\ (result.kind = "Ok" => first.pos = pos)

\* the head of a versioned input: magic, version and the hyperparameter
\* fields but the last
HeadLength == 8 + 4 * (HyperFields - 1)

\* C21: on a successful llama_model_quantize run the magic, the format
\* version, the first six hyperparameter fields and the whole vocabulary
\* table of the output are the bytes of the input, and the seventh
\* hyperparameter field of the output is the requested type.
C21_HeadAndVocabularyKept ==
  Succeeded =>
    /\ n_vocab = I32At(stream, 8)
    /\ Len(fout) >= FirstTensor
    /\ SubSeq(fout, 1, HeadLength) = BytesAt(stream, 0, HeadLength)
    /\ SubSeq(fout, HeadLength + 1, HeadLength + 4) = LE32(itype)
    /\ I32At(fout, HeadLength) \in {TagQ4_0, TagQ4_1}
    /\ SubSeq(fout, HeadLength + 5, FirstTensor)
         = BytesAt(stream, HeadLength + 4, FirstTensor - (HeadLength + 4))

\* C21 witness: a successful run over an input with two vocabulary entries
\* or more, whose seventh hyperparameter field was not the requested type
C21_Witness ==
  /\ Succeeded
  /\ n_vocab >= 2
  /\ FirstTensor > HeadLength + 4 + 2 * 8
  /\ I32At(stream, HeadLength) # itype

\* the input holds at offset p the whole header of a 2-D tensor whose name
\* contains "weight" and whose type is q4_0 or q4_1
EligibleQuantizedAt(p) ==
  /\ CanRead(stream, p, 20)
  /\ I32At(stream, p) = 2
  /\ I32At(stream, p + 4) >= 0
  /\ CanRead(stream, p + 20, I32At(stream, p + 4))
  /\ find_weight(BytesAt(stream, p + 20, I32At(stream, p + 4)))
  /\ I32At(stream, p + 8) \in {TagQ4_0, TagQ4_1}

\* the length of the output once the records of copied are written
OutputEnd ==
  IF copied = << >> THEN FirstTensor
  ELSE copied[Len(copied)].at + copied[Len(copied)].header_len
         + copied[Len(copied)].out_len

\* C22: an eligible tensor (2 dimensions, "weight" in its name) of type
\* q4_0 or q4_1 ends llama_model_quantize with InvalidFtype carrying the
\* tag, with the input read up to the end of the tensor's header and no
\* further, and the output holding the records of the earlier tensors and
\* no byte of this one.
C22_QuantizedSourceRefused ==
  (tensor.start > 0 /\ EligibleQuantizedAt(tensor.start)) =>
    /\ pc \in {"q_body", "done"}
    /\ pos = tensor.start + 20 + I32At(stream, tensor.start + 4)
    /\ Len(fout) = OutputEnd
    /\ \A k \in 1..Len(copied) :
         /\ copied[k].start < tensor.start
         /\ copied[k].at + copied[k].header_len + copied[k].out_len <= Len(fout)
    /\ (Done => result = Err("InvalidFtype", I32At(stream, tensor.start + 8), ""))

\* C22 witness: the second tensor of an input was refused for its type,
\* the record of the first is in the output
C22_Witness ==
  /\ Done
  /\ result.kind = "InvalidFtype"
  /\ Len(copied) = 1
  /\ Len(fout) > FirstTensor

\* the input holds at offset p a whole tensor record as the format lays it
\* out: a header of at most 2 non-negative dims, a known type, and a body
\* of DataLength bytes
RecordDims(p) == I32At(stream, p)
RecordNameLen(p) == I32At(stream, p + 4)
RecordType(p) == decode_element_type(I32At(stream, p + 8))
RecordElements(p) ==
  (IF RecordDims(p) >= 1 THEN I32At(stream, p + 12) ELSE 1)
    * (IF RecordDims(p) >= 2 THEN I32At(stream, p + 16) ELSE 1)
RecordHeader(p) == 12 + 4 * RecordDims(p) + RecordNameLen(p)
RecordEnd(p) ==
  p + RecordHeader(p) + DataLength(RecordType(p), RecordElements(p))
RecordAt(p) ==
  /\ CanRead(stream, p, 12)
  /\ RecordDims(p) \in 0..2
  /\ RecordNameLen(p) >= 0
  /\ RecordType(p) # "unsupported"
  /\ CanRead(stream, p + 12, 4 * RecordDims(p))
  /\ \A k \in 1..RecordDims(p) : I32At(stream, p + 8 + 4 * k) >= 0
  /\ RecordEnd(p) <= Len(stream)

\* the offsets of the tensor records of the input from p on; -1 ends the
\* sequence when the bytes at hand are no whole record
RECURSIVE InputRecords(_)
InputRecords(p) ==
  IF p >= Len(stream) THEN << >>
  ELSE IF ~RecordAt(p) THEN << -1 >>
  ELSE << p >> \o InputRecords(RecordEnd(p))

WellFormedInput ==
  \A k \in 1..Len(InputRecords(FirstTensor)) :
    InputRecords(FirstTensor)[k] >= 0

\* record k of the output is record k of the input with its dimension
\* count, dims and name, the requested type as its tag if it was quantized
\* and as many body bytes as the kernel counted, and it ends where the
\* next record, or the output, ends
OutputRecordValid(k) ==
  LET r == copied[k]
      p == InputRecords(FirstTensor)[k]
      nd == RecordDims(p)
  IN
  /\ r.start = p
  /\ r.header_len = RecordHeader(p)
  /\ SubSeq(fout, r.at + 1, r.at + 8) = BytesAt(stream, p, 8)
  /\ SubSeq(fout, r.at + 13, r.at + r.header_len)
       = BytesAt(stream, p + 12, r.header_len - 12)
  /\ I32At(fout, r.at + 8) = IF r.quantize THEN itype ELSE I32At(stream, p + 8)
  /\ r.quantize = (nd = 2 /\ find_weight(BytesAt(stream, p + 12 + 4 * nd,
                                                   RecordNameLen(p))))
  /\ (r.quantize => r.out_len = r.curr_size)
  /\ r.at + r.header_len + r.out_len
       = IF k < Len(copied) THEN copied[k + 1].at ELSE Len(fout)

\* C23: on a successful llama_model_quantize run over an input of whole
\* tensor records, the output holds one record for every record of the
\* input, in order, with dimension count, dims and name unchanged, the
\* requested type as the tag of every eligible tensor and as many body
\* bytes for it as the kernel counted, each record right after the other.
C23_OutputValid ==
  (Succeeded /\ WellFormedInput) =>
    /\ Len(copied) = Len(InputRecords(FirstTensor))
    /\ (copied # << >> => copied[1].at = FirstTensor)
    /\ \A k \in 1..Len(copied) : OutputRecordValid(k)

(***************************************************************************)
(* Termination of a traversal, under SpecEither.                           *)
(***************************************************************************)
AtLoopHead == pc \in {"load_weights", "e_load_weights"}
AtTensorHook == pc \in {"tensor_buffer", "e_tensor_buffer"}
AtTensorBody == pc \in {"tensor_weights", "e_seek"}

\* the header of a tensor takes the position 12 bytes forward or more
HeaderAdvances ==
  (AtLoopHead /\ AtTensorHook') =>
    /\ pos' >= pos + 12
    /\ tensor_info'.start_offset >= pos'

\* the position after the body of a tensor is not below its start offset
BodyAdvances ==
  (AtTensorBody /\ AtLoopHead') => pos' >= tensor_info.start_offset

\* no unread byte at the head of the tensor loop is success
EndOfStreamSucceeds ==
  (AtLoopHead /\ ~has_data_left(stream, pos)) =>
    /\ pc' = "done"
    /\ result' = Err("Ok", 0, "")

\* C24: a traversal of a finite stream with hooks that return comes to
\* its end, with success or with an error; every iteration of the tensor
\* loop moves the position forward, by the 12 header bytes at least and
\* never to below the start offset of the tensor, and the end of the
\* stream at the head of the loop is success.
C24_TraversalTerminates ==
  /\ <>(Done /\ result.kind # "none")
  /\ [][HeaderAdvances]_vars
  /\ [][BodyAdvances]_vars
  /\ [][EndOfStreamSucceeds]_vars

\* C24 witness: a traversal ended with success after two iterations of
\* the tensor loop, the second body reaching the end of the stream
C24_Witness ==
  /\ Done
  /\ result.kind = "Ok"
  /\ tensors_read = 2
  /\ pos >= Len(stream)
  /\ pos >= tensor_info.start_offset

====
